---- MODULE Spec2Model ----
(***************************************************************************)
(* Model of the validated geometry records of the TRIGA / NETL progression *)
(* problems: the FuelElement composite and its derived interior_length,    *)
(* the TransientRod and FuelFollowerControlRod withdrawal state, the       *)
(* pincell builders that select a rod section, and TRIGA.Core with its     *)
(* RING_MAP, core_loading validation and core map.                         *)
(*                                                                         *)
(* Numbers.  Python floats are modelled by exact integers.  Lengths are in *)
(* units of 1e-6 cm; a literal "x inches" of the source is written         *)
(* In(x * 10000), so that CM_PER_INCH = 2.54 cm/inch becomes 254 units per *)
(* 1e-4 inch.  fraction_withdrawn is an integer number of 1/FracDen, so    *)
(* 0.0 is 0 and 1.0 is FracDen.                                            *)
(*                                                                         *)
(* Records.  A dataclass instance is a TLA+ record of its fields.  The     *)
(* dataclasses are declared with a plain @dataclass (not frozen), so       *)
(* attribute assignment on an instance is an operation of the program; it  *)
(* runs no __post_init__.                                                  *)
(*                                                                         *)
(* Failures.  A failed assert is the record [ok |-> FALSE, msg |-> m] with *)
(* m the assertion message of the source; `err` holds the message of the   *)
(* last operation, or "none".                                              *)
(***************************************************************************)
EXTENDS Integers, Sequences, FiniteSets, TLC

VARIABLES
    op,          \* the last operation performed
    err,         \* its error message, "none" when it returned
    args,        \* the arguments of the last constructor call
    fe,          \* the FuelElement instance, or "None"
    nmut,        \* attribute assignments made so far
    rods,        \* slot -> control rod instance (TransientRod / FFCR), or "None"
    sections,    \* slot -> result of the last pincell build for that rod
    RING_MAP,    \* TRIGA.Core.RING_MAP (class attribute)
    core,        \* the TRIGA.Core instance (its instance attributes), or "None"
    core_map,    \* the local core_map of Core.__post_init__ when it returned
    obj,         \* the object the last component constructor or factory returned
    insts,       \* the objects built with default arguments that the program holds
    nid,         \* the number of objects allocated so far (object identities)
    DEFAULT_MPACT_SETTINGS   \* utils.DEFAULT_MPACT_SETTINGS (module-level dict of dicts)

vars == <<op, err, args, fe, nmut, rods, sections, RING_MAP, core, core_map, obj, insts, nid,
          DEFAULT_MPACT_SETTINGS>>

\* Python's None, also the value of a model variable that holds no object
None == [kind |-> "None"]
\* an argument of a call: omitted (the field's default applies), or given
NoArg == [given |-> FALSE]
Given(v) == [given |-> TRUE, v |-> v]

(* ------------------------------ bounds -------------------------------- *)
\* caller-supplied lengths are 0 .. MaxDim whole inches
MaxDim == 1
\* attribute assignments made on the records of one run
MaxMut == 1
\* fraction_withdrawn inputs are (-1 .. FracDen + 1) / FracDen
FracDen == 2
\* entries of a caller-supplied core_loading
MaxLoad == 2
\* the objects built with default arguments that a program holds at once
MaxInst == 2
MaxRows == 9
MaxCols == 6

(* ----------------------------- constants ------------------------------ *)
\* constants.py: CM_PER_INCH = 2.54 [cm / inch] = 254 [1e-6 cm / 1e-4 inch]
CM_PER_INCH == 254

In(tenthousandths) == tenthousandths * CM_PER_INCH
Inches(n) == In(n * 10000)
\* a literal given in cm, written in 1e-4 cm
Cm(tenthousandths) == tenthousandths * 100

Ok(v) == [ok |-> TRUE, val |-> v]
Raise(m) == [ok |-> FALSE, msg |-> m]

(* ===================== FuelElement (fuel_element.py) =================== *)

ZrFillRod(radius) ==
    IF ~(radius > 0) THEN Raise("Zr Fill Rod radius must be positive.")
    ELSE Ok([radius |-> radius])

FuelMeat(inner_radius, outer_radius, length) ==
    IF ~(inner_radius > 0) THEN Raise("Fuel Meat inner radius must be positive.")
    ELSE IF ~(outer_radius > inner_radius)
         THEN Raise("Fuel Meat outer radius must be larger than inner radius.")
    ELSE IF ~(length > 0) THEN Raise("Fuel Meat length must be positive.")
    ELSE Ok([inner_radius |-> inner_radius, outer_radius |-> outer_radius,
             length |-> length])

Cladding(thickness, outer_radius) ==
    IF ~(thickness > 0) THEN Raise("Cladding thickness must be positive.")
    ELSE IF ~(outer_radius > 0) THEN Raise("Cladding outer radius must be positive.")
    ELSE Ok([thickness |-> thickness, outer_radius |-> outer_radius])

GraphiteReflector(radius, thickness) ==
    IF ~(radius > 0) THEN Raise("Graphite Reflector radius must be positive.")
    ELSE IF ~(thickness > 0) THEN Raise("Graphite Reflector thickness must be positive.")
    ELSE Ok([radius |-> radius, thickness |-> thickness])

MolyDisc(radius, thickness) ==
    IF ~(radius > 0) THEN Raise("Moly Disc radius must be positive.")
    ELSE IF ~(thickness > 0) THEN Raise("Moly Disc thickness must be positive.")
    ELSE Ok([radius |-> radius, thickness |-> thickness])

AirGap(thickness) ==
    IF ~(thickness > 0) THEN Raise("Air Gap thickness must be positive.")
    ELSE Ok([thickness |-> thickness])

EndFitting(length, direction) ==
    IF ~(length > 0) THEN Raise("End Fitting length must be positive.")
    ELSE IF direction \notin {"up", "down"}
         THEN Raise("End Fitting direction must be either 'up' or 'down'.")
    ELSE Ok([length |-> length, direction |-> direction])

\* the field defaults of the part dataclasses
ZrFillRod_radius == In(1250)
FuelMeat_inner_radius == In(1250)
FuelMeat_outer_radius == In(7175)
FuelMeat_length == In(150000)
Cladding_thickness == In(200)
Cladding_outer_radius == In(7375)
GraphiteReflector_radius == In(7150)
GraphiteReflector_thickness == In(34200)
MolyDisc_radius == In(7155)
MolyDisc_thickness == In(310)
AirGap_thickness == In(5000)

\* the default_factory of each FuelElement field
FuelElement_defaults ==
    [cladding                 |-> Cladding(Cladding_thickness, Cladding_outer_radius).val,
     upper_end_fitting        |-> EndFitting(Cm(73552), "up").val,
     upper_air_gap            |-> AirGap(AirGap_thickness).val,
     upper_graphite_reflector |-> GraphiteReflector(GraphiteReflector_radius, In(25600)).val,
     zr_fill_rod              |-> ZrFillRod(ZrFillRod_radius).val,
     fuel_meat                |-> FuelMeat(FuelMeat_inner_radius, FuelMeat_outer_radius,
                                           FuelMeat_length).val,
     moly_disc                |-> MolyDisc(MolyDisc_radius, MolyDisc_thickness).val,
     lower_graphite_reflector |-> GraphiteReflector(GraphiteReflector_radius, In(37200)).val,
     lower_end_fitting        |-> EndFitting(Cm(76209), "down").val]

\* FuelElement.__post_init__: the derived interior length of the given parts
InteriorLengthWithFitting(p) ==
    p.lower_graphite_reflector.thickness + p.moly_disc.thickness
    + p.fuel_meat.length + p.upper_graphite_reflector.thickness
    + p.upper_air_gap.thickness + p.upper_end_fitting.length

InteriorLength(p) ==
    p.lower_graphite_reflector.thickness + p.moly_disc.thickness
    + p.fuel_meat.length + p.upper_graphite_reflector.thickness
    + p.upper_air_gap.thickness

\* FuelElement(**parts): the generated __init__ stores the parts, then
\* __post_init__ sets interior_length
FuelElement(p) ==
    [cladding                 |-> p.cladding,
     upper_end_fitting        |-> p.upper_end_fitting,
     upper_air_gap            |-> p.upper_air_gap,
     upper_graphite_reflector |-> p.upper_graphite_reflector,
     zr_fill_rod              |-> p.zr_fill_rod,
     fuel_meat                |-> p.fuel_meat,
     moly_disc                |-> p.moly_disc,
     lower_graphite_reflector |-> p.lower_graphite_reflector,
     lower_end_fitting        |-> p.lower_end_fitting,
     interior_length          |-> InteriorLength(p)]

\* the five parts stacked inside the cladding, and the other parts a caller varies
AxialParts == {"lower_graphite_reflector", "moly_disc", "fuel_meat",
               "upper_graphite_reflector", "upper_air_gap"}
OtherParts == {"upper_end_fitting", "zr_fill_rod"}

\* the part `f` as a caller builds it with its axial (or only) dimension `d`, the
\* part's other fields at their defaults
Part(f, d) ==
    CASE f = "lower_graphite_reflector" -> GraphiteReflector(GraphiteReflector_radius, d)
      [] f = "upper_graphite_reflector" -> GraphiteReflector(GraphiteReflector_radius, d)
      [] f = "moly_disc"                -> MolyDisc(MolyDisc_radius, d)
      [] f = "fuel_meat"                -> FuelMeat(FuelMeat_inner_radius,
                                                    FuelMeat_outer_radius, d)
      [] f = "upper_air_gap"            -> AirGap(d)
      [] f = "upper_end_fitting"        -> EndFitting(d, "up")
      [] f = "lower_end_fitting"        -> EndFitting(d, "down")
      [] f = "zr_fill_rod"              -> ZrFillRod(d)

\* the name of that dimension in the part's record
DimField(f) ==
    CASE f \in {"fuel_meat", "upper_end_fitting", "lower_end_fitting"} -> "length"
      [] f = "zr_fill_rod" -> "radius"
      [] OTHER -> "thickness"

\* what a caller passes for a part: nothing, or a part of 0 .. MaxDim inches
ArgDims == {NoArg} \cup {Given(Inches(k)) : k \in 0 .. MaxDim}
\* what a caller assigns to a dimension of an existing part: any number
SetDims == {0 - Inches(1)} \cup {Inches(k) : k \in 0 .. MaxDim}

\* fe = FuelElement(lower_graphite_reflector = GraphiteReflector(thickness = ..), ..):
\* the caller builds the parts it passes (any of them may fail its own
\* validation, which ends the call), then the composite is built
ConstructFuelElement ==
    /\ op = "init"
    /\ \E a \in [AxialParts \cup OtherParts -> ArgDims] :
         LET built  == [f \in DOMAIN a |->
                          IF a[f] = NoArg THEN Ok(FuelElement_defaults[f])
                          ELSE Part(f, a[f].v)]
             failed == {f \in DOMAIN a : ~built[f].ok}
             parts  == [f \in DOMAIN FuelElement_defaults |->
                          IF f \in DOMAIN a THEN built[f].val
                          ELSE FuelElement_defaults[f]]
         IN  /\ args' = a
             /\ IF failed = {}
                THEN /\ fe' = FuelElement(parts)
                     /\ err' = "none"
                ELSE /\ fe' = None
                     /\ err' \in {built[f].msg : f \in failed}
    /\ op' = "FuelElement"
    /\ UNCHANGED <<nmut, rods, sections, RING_MAP, core, core_map, obj, insts, nid, DEFAULT_MPACT_SETTINGS>>

\* fe.<part>.<dimension> = v: plain attribute assignment on the part
SetPartDimension ==
    /\ fe # None
    /\ nmut < MaxMut
    /\ \E f \in AxialParts \cup OtherParts, v \in SetDims :
         fe' = [fe EXCEPT ![f][DimField(f)] = v]
    /\ nmut' = nmut + 1
    /\ op' = "setattr"
    /\ err' = "none"
    /\ UNCHANGED <<args, rods, sections, RING_MAP, core, core_map, obj, insts, nid, DEFAULT_MPACT_SETTINGS>>

\* fe.<part> = <a newly built part>: plain attribute assignment on the element
ReplacePart ==
    /\ fe # None
    /\ nmut < MaxMut
    /\ \E f \in AxialParts \cup OtherParts, d \in ArgDims \ {NoArg} :
         /\ Part(f, d.v).ok
         /\ fe' = [fe EXCEPT ![f] = Part(f, d.v).val]
    /\ nmut' = nmut + 1
    /\ op' = "replace"
    /\ err' = "none"
    /\ UNCHANGED <<args, rods, sections, RING_MAP, core, core_map, obj, insts, nid, DEFAULT_MPACT_SETTINGS>>

(* ============ TransientRod (NETL/transient_rod.py) and ================= *)
(* ============ FuelFollowerControlRod (NETL/fuel_follower_control_rod.py) *)

\* the composite's own validation, the same three asserts in both classes
RodPostInitExclusive(fraction_withdrawn, maximum_withdrawal_distance) ==
    IF ~(fraction_withdrawn >= 0) THEN Raise("Fraction withdrawn must be non-negative.")
    ELSE IF ~(fraction_withdrawn < FracDen) THEN Raise("Fraction withdrawn cannot exceed 1.0.")
    ELSE IF ~(maximum_withdrawal_distance > 0)
         THEN Raise("Maximum withdrawal distance must be positive.")
    ELSE Ok(TRUE)

RodPostInit(fraction_withdrawn, maximum_withdrawal_distance) ==
    IF ~(fraction_withdrawn >= 0) THEN Raise("Fraction withdrawn must be non-negative.")
    ELSE IF ~(fraction_withdrawn <= FracDen) THEN Raise("Fraction withdrawn cannot exceed 1.0.")
    ELSE IF ~(maximum_withdrawal_distance > 0)
         THEN Raise("Maximum withdrawal distance must be positive.")
    ELSE Ok(TRUE)

\* TransientRod(fraction_withdrawn = f, maximum_withdrawal_distance = d), every
\* part at its default
TransientRod(f, d) ==
    LET v == RodPostInit(f, d)
    IN  IF ~v.ok THEN v
        ELSE Ok([kind                        |-> "TransientRod",
                 cladding                    |-> [outer_radius |-> In(6250),
                                                  thickness    |-> In(280)],
                 fill_gas                    |-> "air",
                 upper_element_plug          |-> [thickness |-> In(5000)],
                 upper_magneform_fitting     |-> [thickness |-> In(10000)],
                 absorber                    |-> [radius |-> In(5935),
                                                  length |-> In(150000)],
                 lower_magneform_fitting     |-> [thickness |-> In(10000)],
                 air_follower                |-> [thickness |-> In(197500)],
                 lower_element_plug          |-> [thickness |-> In(5000)],
                 maximum_withdrawal_distance |-> d,
                 fraction_withdrawn          |-> f,
                 core_centerline_offset      |-> 0])

\* FuelFollowerControlRod(fraction_withdrawn = f, maximum_withdrawal_distance = d),
\* every part at its default; the class declares no fill_gas field
FuelFollowerControlRod(f, d) ==
    LET v == RodPostInit(f, d)
    IN  IF ~v.ok THEN v
        ELSE Ok([kind                        |-> "FuelFollowerControlRod",
                 cladding                    |-> [outer_radius |-> In(6550),
                                                  thickness    |-> In(200)],
                 upper_element_plug          |-> [thickness |-> In(15000)],
                 upper_air_gap               |-> [thickness |-> In(35000)],
                 upper_magneform_fitting     |-> [thickness |-> In(5000)],
                 above_absorber_air_gap      |-> [thickness |-> In(1250)],
                 absorber                    |-> [radius |-> In(6500),
                                                  length |-> In(150000)],
                 middle_magneform_fitting    |-> [thickness |-> In(5000)],
                 above_fuel_follower_air_gap |-> [thickness |-> In(2500)],
                 zr_fill_rod                 |-> [radius |-> In(1250)],
                 fuel_follower               |-> [inner_radius |-> In(1250),
                                                  length       |-> In(150000)],
                 lower_magneform_fitting     |-> [thickness |-> In(10000)],
                 lower_air_gap               |-> [thickness |-> In(53750)],
                 lower_element_plug          |-> [thickness |-> In(5000)],
                 maximum_withdrawal_distance |-> d,
                 fraction_withdrawn          |-> f,
                 core_centerline_offset      |-> 0])

\* the field defaults of both classes
Rod_maximum_withdrawal_distance == In(150000)
Rod_fraction_withdrawn == 0

\* element.<name> on an instance without that attribute
AttributeError(element, name) ==
    Raise("AttributeError: '" \o element.kind \o "' object has no attribute '"
          \o name \o "'")

\* problem_2_utils.build_transient_rod_pincell: the pincell of the section at
\* the measurement plane
build_transient_rod_pincell(element) ==
    IF element.fraction_withdrawn > 0
    THEN IF "fill_gas" \notin DOMAIN element THEN AttributeError(element, "fill_gas")
         ELSE Ok([section      |-> "air_follower",
                  outer_radius |-> element.cladding.outer_radius,
                  fill_gas     |-> element.fill_gas])
    ELSE IF "fill_gas" \notin DOMAIN element THEN AttributeError(element, "fill_gas")
         ELSE Ok([section      |-> "absorber",
                  outer_radius |-> element.cladding.outer_radius,
                  absorber     |-> element.absorber.radius,
                  fill_gas     |-> element.fill_gas])

\* problem_2_utils.build_ffcr_pincell; the follower's outer radius is the
\* cladding's inner radius, cladding.outer_radius - cladding.thickness
build_ffcr_pincell(element) ==
    IF element.fraction_withdrawn > 0
    THEN IF "fill_gas" \notin DOMAIN element THEN AttributeError(element, "fill_gas")
         ELSE Ok([section       |-> "fuel_follower",
                  outer_radius  |-> element.cladding.outer_radius,
                  fuel_follower |-> [inner_radius |-> element.fuel_follower.inner_radius,
                                     outer_radius |-> element.cladding.outer_radius
                                                      - element.cladding.thickness],
                  zr_fill_rod   |-> element.zr_fill_rod.radius,
                  fill_gas      |-> element.fill_gas])
    ELSE IF "fill_gas" \notin DOMAIN element THEN AttributeError(element, "fill_gas")
         ELSE Ok([section      |-> "absorber",
                  outer_radius |-> element.cladding.outer_radius,
                  absorber     |-> element.absorber.radius,
                  fill_gas     |-> element.fill_gas])

\* the variables a caller holds rods in, filled in this order
Slots == {1, 2}
\* fraction_withdrawn as a caller passes or assigns it: -1/FracDen .. 1 + 1/FracDen
Fractions == (0 - 1) .. (FracDen + 1)
FractionArgs == {NoArg} \cup {Given(f) : f \in Fractions}
DistanceArgs == {NoArg, Given(0 - Inches(1)), Given(0), Given(Inches(1))}

RodArgs(f, d) ==
    [fraction_withdrawn          |-> IF f = NoArg THEN Rod_fraction_withdrawn ELSE f.v,
     maximum_withdrawal_distance |-> IF d = NoArg THEN Rod_maximum_withdrawal_distance
                                     ELSE d.v]

\* rods[s] = TransientRod(fraction_withdrawn = f, maximum_withdrawal_distance = d)
ConstructTransientRod ==
    \E s \in Slots, f \in FractionArgs, d \in DistanceArgs :
        LET a == RodArgs(f, d)
            r == TransientRod(a.fraction_withdrawn, a.maximum_withdrawal_distance)
        IN  /\ rods[s] = None
            /\ \A t \in Slots : t < s => rods[t] # None
            /\ args' = a
            /\ op' = "TransientRod"
            /\ err' = IF r.ok THEN "none" ELSE r.msg
            /\ rods' = IF r.ok THEN [rods EXCEPT ![s] = r.val] ELSE rods
            /\ UNCHANGED <<fe, nmut, sections, RING_MAP, core, core_map, obj, insts, nid, DEFAULT_MPACT_SETTINGS>>

\* rods[s] = FuelFollowerControlRod(fraction_withdrawn = f, maximum_withdrawal_distance = d)
ConstructFuelFollowerControlRod ==
    \E s \in Slots, f \in FractionArgs, d \in DistanceArgs :
        LET a == RodArgs(f, d)
            r == FuelFollowerControlRod(a.fraction_withdrawn, a.maximum_withdrawal_distance)
        IN  /\ rods[s] = None
            /\ \A t \in Slots : t < s => rods[t] # None
            /\ args' = a
            /\ op' = "FuelFollowerControlRod"
            /\ err' = IF r.ok THEN "none" ELSE r.msg
            /\ rods' = IF r.ok THEN [rods EXCEPT ![s] = r.val] ELSE rods
            /\ UNCHANGED <<fe, nmut, sections, RING_MAP, core, core_map, obj, insts, nid, DEFAULT_MPACT_SETTINGS>>

\* obj = TransientRod(fraction_withdrawn = f, maximum_withdrawal_distance = d)   or
\* obj = FuelFollowerControlRod(fraction_withdrawn = f, maximum_withdrawal_distance = d):
\* the one construction of a program that builds a rod and nothing else
ConstructRod ==
    /\ op = "init"
    /\ \E kind \in {"TransientRod", "FuelFollowerControlRod"},
          f \in FractionArgs, d \in DistanceArgs :
         LET a == RodArgs(f, d)
             r == IF kind = "TransientRod"
                  THEN TransientRod(a.fraction_withdrawn, a.maximum_withdrawal_distance)
                  ELSE FuelFollowerControlRod(a.fraction_withdrawn,
                                              a.maximum_withdrawal_distance)
         IN  /\ args' = [class |-> kind, fraction_withdrawn |-> a.fraction_withdrawn,
                         maximum_withdrawal_distance |-> a.maximum_withdrawal_distance]
             /\ err' = IF r.ok THEN "none" ELSE r.msg
             /\ obj' = IF r.ok THEN r.val ELSE None
    /\ op' = "Rod"
    /\ UNCHANGED <<fe, nmut, rods, sections, RING_MAP, core, core_map, insts, nid, DEFAULT_MPACT_SETTINGS>>

\* rods[s].fraction_withdrawn = f: plain attribute assignment
SetFractionWithdrawn ==
    \E s \in Slots, f \in Fractions :
        /\ rods[s] # None
        /\ nmut < MaxMut
        /\ rods[s].fraction_withdrawn # f
        /\ rods' = [rods EXCEPT ![s].fraction_withdrawn = f]
        /\ nmut' = nmut + 1
        /\ op' = "setattr"
        /\ err' = "none"
        /\ UNCHANGED <<args, fe, sections, RING_MAP, core, core_map, obj, insts, nid, DEFAULT_MPACT_SETTINGS>>

\* sections[s] = build_transient_rod_pincell(rods[s], coolant), or build_ffcr_pincell,
\* as build_element_pincell_geometry dispatches on the rod's class; the result is
\* kept with the rod state it was built from
BuildRodPincell ==
    \E s \in Slots :
        /\ rods[s] # None
        /\ LET r == IF rods[s].kind = "TransientRod"
                    THEN build_transient_rod_pincell(rods[s])
                    ELSE build_ffcr_pincell(rods[s])
           IN  /\ sections' = [sections EXCEPT ![s] =
                                 [kind               |-> rods[s].kind,
                                  fraction_withdrawn |-> rods[s].fraction_withdrawn,
                                  result             |-> r]]
               /\ err' = IF r.ok THEN "none" ELSE r.msg
        /\ op' = "build_pincell"
        /\ UNCHANGED <<args, fe, nmut, rods, RING_MAP, core, core_map, obj, insts, nid, DEFAULT_MPACT_SETTINGS>>

(* ================= TRIGA.Core (NETL/geometry_specs.py) ================= *)

\* the rings of the literal of TRIGA.Core.RING_MAP
Ring_G ==
    <<"G-01", "G-02", "G-03", "G-04", "G-05", "G-06",
      "G-07", "G-08", "G-09", "G-10", "G-11", "G-12",
      "G-13", "G-14", "G-15", "G-16", "G-17", "G-18",
      "G-19", "G-20", "G-21", "G-22", "G-23", "G-24",
      "G-25", "G-26", "G-27", "G-28", "G-29", "G-30",
      "G-31", "G-32", "G-33", "G-34", "G-35", "G-36">>
Ring_F ==
    <<"F-01", "F-02", "F-03", "F-04", "F-05", "F-06",
      "F-07", "F-08", "F-09", "F-10", "F-11", "F-12",
      "F-13", "F-14", "F-15", "F-16", "F-17", "F-18",
      "F-19", "F-20", "F-21", "F-22", "F-23", "F-24",
      "F-25", "F-26", "F-27", "F-28", "F-29", "F-30">>
Ring_E ==
    <<"E-01", "E-02", "E-03", "E-04", "E-05", "E-06",
      "E-07", "E-08", "E-09", "E-10", "E-11", "E-12",
      "E-13", "E-14", "E-15", "E-16", "E-17", "E-18",
      "E-19", "E-20", "E-21", "E-22", "E-23", "E-24">>
Ring_D ==
    <<"D-01", "D-02", "D-03", "D-04", "D-05", "D-06",
      "D-07", "D-08", "D-09", "D-10", "D-11", "D-12",
      "D-13", "D-14", "D-15", "D-16", "D-17", "D-18">>
Ring_C ==
    <<"C-01", "C-02", "C-03", "C-04", "C-05", "C-06",
      "C-07", "C-08", "C-09", "C-10", "C-11", "C-12">>
Ring_B ==
    <<"B-01", "B-02", "B-03", "B-04", "B-05", "B-06">>
Ring_A ==
    <<"A-01">>

RingMapInnermostFirst == <<Ring_A, Ring_B, Ring_C, Ring_D, Ring_E, Ring_F, Ring_G>>

\* the value of the class attribute TRIGA.Core.RING_MAP: the rings, outermost first
RingMapLiteral == <<Ring_G, Ring_F, Ring_E, Ring_D, Ring_C, Ring_B, Ring_A>>

\* a new instance of a loadable class, every field at its default
New(class) == [kind |-> class]

\* TRIGA.Core.default_loading(): the dict literal, item by item
default_loading ==
    <<<<"B-01", New("FuelElement")>>, <<"B-02", New("FuelElement")>>, <<"B-03", New("FuelElement")>>,
      <<"B-04", New("FuelElement")>>, <<"B-05", New("FuelElement")>>, <<"B-06", New("FuelElement")>>,
      <<"C-02", New("FuelElement")>>, <<"C-03", New("FuelElement")>>, <<"C-04", New("FuelElement")>>,
      <<"C-05", New("FuelElement")>>, <<"C-06", New("FuelElement")>>, <<"C-08", New("FuelElement")>>,
      <<"C-09", New("FuelElement")>>, <<"C-10", New("FuelElement")>>, <<"C-11", New("FuelElement")>>,
      <<"C-12", New("FuelElement")>>, <<"D-01", New("FuelElement")>>, <<"D-02", New("FuelElement")>>,
      <<"D-03", New("FuelElement")>>, <<"D-04", New("FuelElement")>>, <<"D-05", New("FuelElement")>>,
      <<"D-07", New("FuelElement")>>, <<"D-08", New("FuelElement")>>, <<"D-09", New("FuelElement")>>,
      <<"D-10", New("FuelElement")>>, <<"D-11", New("FuelElement")>>, <<"D-12", New("FuelElement")>>,
      <<"D-13", New("FuelElement")>>, <<"D-15", New("FuelElement")>>, <<"D-16", New("FuelElement")>>,
      <<"D-17", New("FuelElement")>>, <<"D-18", New("FuelElement")>>, <<"E-01", New("FuelElement")>>,
      <<"E-02", New("FuelElement")>>, <<"E-03", New("FuelElement")>>, <<"E-04", New("FuelElement")>>,
      <<"E-05", New("FuelElement")>>, <<"E-06", New("FuelElement")>>, <<"E-07", New("FuelElement")>>,
      <<"E-08", New("FuelElement")>>, <<"E-09", New("FuelElement")>>, <<"E-10", New("FuelElement")>>,
      <<"E-11", None>>, <<"E-12", New("FuelElement")>>, <<"E-13", New("FuelElement")>>,
      <<"E-14", New("FuelElement")>>, <<"E-15", New("FuelElement")>>, <<"E-16", New("FuelElement")>>,
      <<"E-17", New("FuelElement")>>, <<"E-18", New("FuelElement")>>, <<"E-19", New("FuelElement")>>,
      <<"E-20", New("FuelElement")>>, <<"E-21", New("FuelElement")>>, <<"E-22", New("FuelElement")>>,
      <<"E-23", New("FuelElement")>>, <<"E-24", New("FuelElement")>>, <<"F-01", New("FuelElement")>>,
      <<"F-02", New("FuelElement")>>, <<"F-03", New("FuelElement")>>, <<"F-04", New("FuelElement")>>,
      <<"F-05", New("FuelElement")>>, <<"F-06", New("FuelElement")>>, <<"F-07", New("FuelElement")>>,
      <<"F-08", New("FuelElement")>>, <<"F-09", New("FuelElement")>>, <<"F-10", New("FuelElement")>>,
      <<"F-11", New("FuelElement")>>, <<"F-12", New("FuelElement")>>, <<"F-13", None>>,
      <<"F-14", None>>, <<"F-15", New("FuelElement")>>, <<"F-16", New("FuelElement")>>,
      <<"F-17", New("FuelElement")>>, <<"F-18", New("FuelElement")>>, <<"F-19", New("FuelElement")>>,
      <<"F-20", New("FuelElement")>>, <<"F-21", New("FuelElement")>>, <<"F-22", New("FuelElement")>>,
      <<"F-23", New("FuelElement")>>, <<"F-24", New("FuelElement")>>, <<"F-25", New("FuelElement")>>,
      <<"F-26", New("FuelElement")>>, <<"F-27", New("FuelElement")>>, <<"F-28", New("FuelElement")>>,
      <<"F-29", New("FuelElement")>>, <<"F-30", New("FuelElement")>>, <<"G-01", None>>,
      <<"G-02", New("FuelElement")>>, <<"G-03", New("FuelElement")>>, <<"G-04", New("FuelElement")>>,
      <<"G-05", New("FuelElement")>>, <<"G-06", New("FuelElement")>>, <<"G-07", None>>,
      <<"G-08", New("FuelElement")>>, <<"G-09", New("FuelElement")>>, <<"G-10", New("FuelElement")>>,
      <<"G-11", New("FuelElement")>>, <<"G-12", New("FuelElement")>>, <<"G-13", None>>,
      <<"G-14", New("FuelElement")>>, <<"G-15", New("FuelElement")>>, <<"G-16", New("FuelElement")>>,
      <<"G-17", New("FuelElement")>>, <<"G-18", New("FuelElement")>>, <<"G-19", None>>,
      <<"G-20", New("FuelElement")>>, <<"G-21", New("FuelElement")>>, <<"G-22", New("FuelElement")>>,
      <<"G-23", New("FuelElement")>>, <<"G-24", New("FuelElement")>>, <<"G-25", None>>,
      <<"G-26", New("FuelElement")>>, <<"G-27", New("FuelElement")>>, <<"G-28", New("FuelElement")>>,
      <<"G-29", New("FuelElement")>>, <<"G-30", New("FuelElement")>>, <<"G-31", None>>,
      <<"G-32", New("SourceHolder")>>, <<"G-33", New("FuelElement")>>, <<"G-34", None>>,
      <<"G-35", New("FuelElement")>>, <<"G-36", New("FuelElement")>>>>

Range(seq) == {seq[i] : i \in 1 .. Len(seq)}

\* a dict is the sequence of its <<key, value>> items in insertion order
Keys(d) == {d[i][1] : i \in 1 .. Len(d)}
\* d.get(key, default)
DictGet(d, key, default) ==
    IF key \in Keys(d) THEN (CHOOSE kv \in Range(d) : kv[1] = key)[2] ELSE default

InvalidLocationError(location) ==
    "Invalid core location '" \o location \o "' in core_loading."
ReservedLocationError(location) ==
    "Core location '" \o location \o "' is reserved for control rods or central thimble."

\* a reserved list that leaves the central thimble's location out
ReservedLocationsWithoutThimble == {"C-01", "C-07", "D-06", "D-14"}

\* the list of the second assert of Core.__post_init__
ReservedLocations == {"A-01", "C-01", "C-07", "D-06", "D-14"}

\* Core.__post_init__, the loop over core_loading: the iteration stops at the
\* first item one of whose two asserts fails, the membership assert being the
\* first of the two; the result is that assert's message, or "none"
InRingMap(ring_map, location) ==
    \E r \in 1 .. Len(ring_map) : location \in Range(ring_map[r])

CheckLoadingReservedFirst(ring_map, core_loading) ==
    LET bad == {i \in 1 .. Len(core_loading) :
                   \/ ~InRingMap(ring_map, core_loading[i][1])
                   \/ core_loading[i][1] \in ReservedLocations}
    IN  IF bad = {} THEN "none"
        ELSE LET res == {i \in bad : core_loading[i][1] \in ReservedLocations}
                 i   == CHOOSE k \in bad : \A j \in bad : k <= j
             IN  IF res # {}
                 THEN ReservedLocationError(
                          core_loading[CHOOSE k \in res : \A j \in res : k <= j][1])
                 ELSE InvalidLocationError(core_loading[i][1])

CheckLoadingNoReservedAssert(ring_map, core_loading) ==
    LET bad == {i \in 1 .. Len(core_loading) :
                   ~InRingMap(ring_map, core_loading[i][1])}
    IN  IF bad = {} THEN "none"
        ELSE InvalidLocationError(
                 core_loading[CHOOSE k \in bad : \A j \in bad : k <= j][1])

\* a validation that stops after the first key of the dict
CheckLoadingFirstKeyOnly(ring_map, core_loading) ==
    IF core_loading = <<>> THEN "none"
    ELSE LET location == core_loading[1][1]
         IN  IF ~InRingMap(ring_map, location) THEN InvalidLocationError(location)
             ELSE IF location \in ReservedLocations THEN ReservedLocationError(location)
             ELSE "none"

CheckLoading(ring_map, core_loading) ==
    LET bad == {i \in 1 .. Len(core_loading) :
                   \/ ~InRingMap(ring_map, core_loading[i][1])
                   \/ core_loading[i][1] \in ReservedLocations}
    IN  IF bad = {} THEN "none"
        ELSE LET i        == CHOOSE k \in bad : \A j \in bad : k <= j
                 location == core_loading[i][1]
             IN  IF ~InRingMap(ring_map, location)
                 THEN InvalidLocationError(location)
                 ELSE ReservedLocationError(location)

\* the locations of the rings in the order of the nested loops
RECURSIVE Flatten(_)
Flatten(rings) == IF rings = <<>> THEN <<>> ELSE Head(rings) \o Flatten(Tail(rings))

\* Core.__post_init__, the local core_map when the loops over RING_MAP end:
\* every location of a ring has been assigned
\* core_loading.get(location, default_loading.get(location, None)), whatever
\* the key held before; the other keys keep their first value
FillCoreMap(m, locations, core_loading) ==
    [k \in DOMAIN m \cup Range(locations) |->
        IF k \in Range(locations)
        THEN DictGet(core_loading, k, DictGet(default_loading, k, None))
        ELSE m[k]]

\* the local core_map at the end of Core.__post_init__
BuildCoreMap(ring_map, self) ==
    FillCoreMap("A-01" :> self.central_thimble
                @@ "C-01" :> self.transient_rod
                @@ "C-07" :> self.regulating_rod
                @@ "D-06" :> self.shim_1_rod
                @@ "D-14" :> self.shim_2_rod,
                Flatten(ring_map), self.core_loading)

\* the default_factory of each Core field; central_thimble's returns the class
\* TRIGA.CentralThimble itself, the rods' return new instances
Core_defaults ==
    [pitch           |-> In(17140),
     central_thimble |-> [class |-> "CentralThimble"],
     transient_rod   |-> [kind |-> "TransientRod", position |-> 524],
     regulating_rod  |-> [kind |-> "FuelFollowerControlRod", position |-> 524],
     shim_1_rod      |-> [kind |-> "FuelFollowerControlRod", position |-> 524],
     shim_2_rod      |-> [kind |-> "FuelFollowerControlRod", position |-> 524]]

\* fixtures a caller passes instead: a CentralThimble instance and four rods at
\* different positions
Core_given ==
    [pitch           |-> In(17140),
     central_thimble |-> [kind |-> "CentralThimble", inner_radius |-> In(6650),
                          outer_radius |-> In(7500)],
     transient_rod   |-> [kind |-> "TransientRod", position |-> 0],
     regulating_rod  |-> [kind |-> "FuelFollowerControlRod", position |-> 100],
     shim_1_rod      |-> [kind |-> "FuelFollowerControlRod", position |-> 200],
     shim_2_rod      |-> [kind |-> "FuelFollowerControlRod", position |-> 300]]

\* Core(core_loading = .., central_thimble = .., ..): the instance attributes
\* when __post_init__ returns, and its local core_map
Core(ring_map, given) ==
    LET self  == given
        check == CheckLoading(ring_map, self.core_loading)
    IN  IF check # "none" THEN Raise(check)
        ELSE Ok([self |-> self, core_map |-> BuildCoreMap(ring_map, self)])

\* the keys and values callers put into core_loading
LoadKeys == {"E-11", "G-32", "A-01", "D-06", "Z-99"}
LoadValues == {None, New("GraphiteElement")}
LoadItems == LoadKeys \X LoadValues

\* the dicts of at most n items over distinct keys
RECURSIVE Loadings(_)
Loadings(n) ==
    IF n = 0 THEN {<<>>}
    ELSE LET shorter == Loadings(n - 1)
         IN  shorter \cup {Append(d, kv) : d \in shorter, kv \in LoadItems}

DistinctKeys(d) == \A i, j \in 1 .. Len(d) : d[i][1] = d[j][1] => i = j

LoadingArgs == {NoArg} \cup {Given(d) : d \in {x \in Loadings(MaxLoad) : DistinctKeys(x)}}

\* core = Core(core_loading = l, central_thimble = .., transient_rod = .., ..)
ConstructCore ==
    /\ op = "init"
    /\ \E l \in LoadingArgs, thimble_given \in BOOLEAN, rods_given \in BOOLEAN :
         LET rod_fields == IF rods_given THEN Core_given ELSE Core_defaults
             given == [pitch           |-> Core_defaults.pitch,
                       central_thimble |-> IF thimble_given THEN Core_given.central_thimble
                                           ELSE Core_defaults.central_thimble,
                       core_loading    |-> IF l = NoArg
                                           THEN default_loading
                                           ELSE l.v,
                       transient_rod   |-> rod_fields.transient_rod,
                       regulating_rod  |-> rod_fields.regulating_rod,
                       shim_1_rod      |-> rod_fields.shim_1_rod,
                       shim_2_rod      |-> rod_fields.shim_2_rod]
             r == Core(RING_MAP, given)
         IN  /\ args' = given
             /\ err' = IF r.ok THEN "none" ELSE r.msg
             /\ core' = IF r.ok THEN r.val.self ELSE None
             /\ core_map' = IF r.ok THEN r.val.core_map ELSE None
    /\ op' = "Core"
    /\ UNCHANGED <<fe, nmut, rods, sections, RING_MAP, obj, insts, nid, DEFAULT_MPACT_SETTINGS>>

\* fill(locations, factory) of DefaultGeometries.core: one item per location
Fill(locations, value) == [i \in 1 .. Len(locations) |-> <<locations[i], value>>]

\* the loading DefaultGeometries.core() builds, item by item in insertion
\* order; each value is the kind of element its factory returns
DefaultGeometries_core_loading ==
    LET fuel          == New("FuelElement")
        graphite      == New("GraphiteElement")
        source_holder == New("SourceHolder")
        empty         == None
    IN  Fill(
            <<"B-01", "B-02", "B-03", "B-04", "B-05", "B-06">>, fuel)
        \o Fill(
            <<"C-02", "C-03", "C-04", "C-05", "C-06", "C-08", "C-09", "C-10",
              "C-11", "C-12">>, fuel)
        \o Fill(
            <<"D-01", "D-02", "D-04", "D-05", "D-07", "D-08", "D-09", "D-10",
              "D-11", "D-12", "D-13", "D-15", "D-16", "D-17", "D-18">>, fuel)
        \o <<<<"D-03", graphite>>>>
        \o Fill(
            <<"E-01", "E-02", "E-03", "E-04", "E-05", "E-06", "E-07", "E-08",
              "E-09", "E-10", "E-12", "E-13", "E-14", "E-15", "E-16", "E-17",
              "E-18", "E-19", "E-20", "E-21", "E-22", "E-23", "E-24">>, fuel)
        \o <<<<"E-11", empty>>>>
        \o Fill(
            <<"F-01", "F-02", "F-03", "F-04", "F-05", "F-06", "F-07", "F-08",
              "F-09", "F-10", "F-11", "F-12", "F-15", "F-16", "F-17", "F-18",
              "F-19", "F-20", "F-21", "F-22", "F-23", "F-24", "F-25", "F-26",
              "F-27", "F-28", "F-29", "F-30">>, fuel)
        \o <<<<"F-13", empty>>, <<"F-14", empty>>>>
        \o Fill(
            <<"G-02", "G-03", "G-04", "G-05", "G-06", "G-08", "G-09", "G-10",
              "G-11", "G-12", "G-14", "G-15", "G-16", "G-17", "G-18", "G-20",
              "G-21", "G-22", "G-23", "G-24", "G-26", "G-27", "G-28", "G-29",
              "G-30", "G-33", "G-35", "G-36">>, fuel)
        \o <<<<"G-32", source_holder>>, <<"G-34", empty>>>>

\* obj = DefaultGeometries.core(): the loading handed to the coreforge Core
DefaultGeometriesCore ==
    /\ op = "init"
    /\ op' = "DefaultGeometries.core"
    /\ args' = None
    /\ err' = "none"
    /\ obj' = [kind |-> "Core", loading |-> DefaultGeometries_core_loading]
    /\ UNCHANGED <<fe, nmut, rods, sections, RING_MAP, core, core_map, insts, nid, DEFAULT_MPACT_SETTINGS>>

(* ============ dimensioned components (NETL/*.py, one class each) ======= *)

\* one assert of a __post_init__: self.<lhs> > self.<rhs>, or self.<lhs> > 0
\* when rhs is "", with the message of the assert
Chk(lhs, rhs, msg) == [lhs |-> lhs, rhs |-> rhs, msg |-> msg]

CheckHoldsNonStrict(self, c) ==
    self[c.lhs] >= (IF c.rhs = "" THEN 0 ELSE self[c.rhs])

CheckHoldsPositiveOnly(self, c) ==
    self[c.lhs] > 0

CheckHolds(self, c) ==
    self[c.lhs] > (IF c.rhs = "" THEN 0 ELSE self[c.rhs])

\* a dataclass: its dimension fields in declaration order, the defaults of the
\* fields that have one, and the asserts of __post_init__ in order
Dataclass(name, fields, defaults, checks) ==
    [name |-> name, fields |-> fields, defaults |-> defaults, checks |-> checks]

NoDefaults == [f \in {} |-> 0]

\* 10.21875 inches
Shroud_small_hex_inradius == (1021875 * CM_PER_INCH) \div 10

GridPlate ==
    Dataclass("GridPlate",
        <<"thickness", "fuel_penetration_radius", "control_rod_penetration_radius",
          "distance_from_core_centerline">>,
        NoDefaults,
        <<Chk("thickness", "", "Grid Plate thickness must be positive."),
          Chk("fuel_penetration_radius", "",
              "Grid Plate fuel penetration radius must be positive."),
          Chk("control_rod_penetration_radius", "",
              "Grid Plate control rod penetration radius must be positive.")>>)

Pool ==
    Dataclass("Pool", <<"radius", "height">>,
        [radius |-> Cm(900000), height |-> Cm(1600000)],
        <<Chk("radius", "", "Pool radius must be positive."),
          Chk("height", "", "Pool height must be positive.")>>)

Shroud ==
    Dataclass("Shroud",
        <<"thickness", "height", "large_hex_inradius", "small_hex_inradius">>,
        [thickness |-> In(1875), height |-> In(231300),
         large_hex_inradius |-> In(107500),
         small_hex_inradius |-> Shroud_small_hex_inradius],
        <<Chk("thickness", "", "Shroud thickness must be positive."),
          Chk("height", "", "Shroud height must be positive."),
          Chk("large_hex_inradius", "", "Shroud large hex inradius must be positive."),
          Chk("small_hex_inradius", "", "Shroud small hex inradius must be positive."),
          Chk("large_hex_inradius", "small_hex_inradius",
              "Shroud large hex inradius must be larger than small hex inradius.")>>)

ReflectorCanister ==
    Dataclass("ReflectorCanister", <<"radius", "height", "core_centerline_offset">>,
        [radius |-> In(210000), height |-> In(231300),
         core_centerline_offset |-> In(5650)],
        <<Chk("radius", "", "Reflector radius must be positive."),
          Chk("height", "", "Reflector height must be positive.")>>)

SpecimenTube ==
    Dataclass("RSRCavity.SpecimenTube", <<"outer_radius", "thickness">>,
        [outer_radius |-> In(5000), thickness |-> In(580)],
        <<Chk("outer_radius", "", "Specimen Tube outer radius must be positive."),
          Chk("thickness", "", "Specimen Tube thickness must be positive.")>>)

RSRCavity ==
    Dataclass("RSRCavity",
        <<"outer_radius", "height", "number_of_tubes", "tube_to_center_distance">>,
        [outer_radius |-> In(143125), height |-> In(108174), number_of_tubes |-> 40,
         tube_to_center_distance |-> In(131560)],
        <<Chk("outer_radius", "", "Rotary Specimen Rack outer radius must be positive."),
          Chk("height", "", "Rotary Specimen Rack height must be positive."),
          Chk("number_of_tubes", "",
              "Rotary Specimen Rack number of tubes must be positive."),
          Chk("tube_to_center_distance", "",
              "Rotary Specimen Rack tube to center distance must be positive.")>>)

BeamPort ==
    Dataclass("BeamPort", <<"inner_radius", "outer_radius">>,
        [inner_radius |-> In(30325), outer_radius |-> In(66250)],
        <<Chk("inner_radius", "", "Beam Port inner radius must be positive."),
          Chk("outer_radius", "inner_radius",
              "Beam Port outer radius must be larger than inner radius.")>>)

CentralThimble ==
    Dataclass("CentralThimble", <<"inner_radius", "outer_radius">>,
        [inner_radius |-> In(6650), outer_radius |-> In(7500)],
        <<Chk("inner_radius", "", "Central Thimble inner radius must be positive."),
          Chk("outer_radius", "inner_radius",
              "Central Thimble outer radius must be larger than inner radius.")>>)

TransientRod_Cladding ==
    Dataclass("TransientRod.Cladding", <<"outer_radius", "thickness">>,
        [outer_radius |-> In(6250), thickness |-> In(280)],
        <<Chk("outer_radius", "", "Transient Rod Cladding outer radius must be positive."),
          Chk("thickness", "", "Transient Rod Cladding thickness must be positive.")>>)

TransientRod_ElementPlug ==
    Dataclass("TransientRod.ElementPlug", <<"thickness">>, [thickness |-> In(5000)],
        <<Chk("thickness", "", "Element Plug thickness must be positive.")>>)

TransientRod_MagneformFitting ==
    Dataclass("TransientRod.MagneformFitting", <<"thickness">>,
        [thickness |-> In(10000)],
        <<Chk("thickness", "", "Magneform Fitting thickness must be positive.")>>)

TransientRod_Absorber ==
    Dataclass("TransientRod.Absorber", <<"radius", "length">>,
        [radius |-> In(5935), length |-> In(150000)],
        <<Chk("radius", "", "Absorber radius must be positive."),
          Chk("length", "", "Absorber length must be positive.")>>)

TransientRod_AirGap ==
    Dataclass("TransientRod.AirGap", <<"thickness">>, [thickness |-> In(197500)],
        <<Chk("thickness", "", "Air Gap thickness must be positive.")>>)

FFCR_Cladding ==
    Dataclass("FuelFollowerControlRod.Cladding", <<"outer_radius", "thickness">>,
        [outer_radius |-> In(6550), thickness |-> In(200)],
        <<Chk("outer_radius", "",
              "Fuel Follower Control Rod Cladding outer radius must be positive."),
          Chk("thickness", "",
              "Fuel Follower Control Rod Cladding thickness must be positive.")>>)

FFCR_ElementPlug ==
    Dataclass("FuelFollowerControlRod.ElementPlug", <<"thickness">>, NoDefaults,
        <<Chk("thickness", "", "Element Plug thickness must be positive.")>>)

FFCR_MagneformFitting ==
    Dataclass("FuelFollowerControlRod.MagneformFitting", <<"thickness">>, NoDefaults,
        <<Chk("thickness", "", "Magneform Fitting thickness must be positive.")>>)

FFCR_Absorber ==
    Dataclass("FuelFollowerControlRod.Absorber", <<"radius", "length">>,
        [radius |-> In(6500), length |-> In(150000)],
        <<Chk("radius", "", "Absorber radius must be positive."),
          Chk("length", "", "Absorber length must be positive.")>>)

FFCR_FuelFollower ==
    Dataclass("FuelFollowerControlRod.FuelFollower", <<"inner_radius", "length">>,
        [inner_radius |-> In(1250), length |-> In(150000)],
        <<Chk("inner_radius", "", "Fuel Follower inner radius must be positive."),
          Chk("length", "", "Fuel Follower length must be positive.")>>)

FFCR_ZrFillRod ==
    Dataclass("FuelFollowerControlRod.ZrFillRod", <<"radius">>, [radius |-> In(1250)],
        <<Chk("radius", "", "Zr Fill Rod radius must be positive.")>>)

FFCR_AirGap ==
    Dataclass("FuelFollowerControlRod.AirGap", <<"thickness">>, NoDefaults,
        <<Chk("thickness", "", "Air Gap thickness must be positive.")>>)

SourceHolder_Cavity ==
    Dataclass("SourceHolder.Cavity", <<"radius", "length", "core_centerline_offset">>,
        [radius |-> In(4905), length |-> In(30000), core_centerline_offset |-> In(0)],
        <<Chk("radius", "", "Source Holder Cavity radius must be positive."),
          Chk("length", "", "Source Holder Cavity length must be positive.")>>)

SourceHolder_Cladding ==
    Dataclass("SourceHolder.Cladding", <<"outer_radius">>, [outer_radius |-> In(7175)],
        <<Chk("outer_radius", "",
              "Source Holder Cladding outer radius must be positive.")>>)

\* FuelElement.FuelMeat as a dataclass of this table (the operator FuelMeat
\* above is the same class with its fields as parameters)
FuelElement_FuelMeat ==
    Dataclass("FuelElement.FuelMeat", <<"inner_radius", "outer_radius", "length">>,
        [inner_radius |-> FuelMeat_inner_radius, outer_radius |-> FuelMeat_outer_radius,
         length |-> FuelMeat_length],
        <<Chk("inner_radius", "", "Fuel Meat inner radius must be positive."),
          Chk("outer_radius", "inner_radius",
              "Fuel Meat outer radius must be larger than inner radius."),
          Chk("length", "", "Fuel Meat length must be positive.")>>)

\* __post_init__: the asserts run in order, the first that fails raises
PostInit(class, self) ==
    LET failed == {i \in 1 .. Len(class.checks) : ~CheckHolds(self, class.checks[i])}
    IN  IF failed = {} THEN Ok(self)
        ELSE Raise(class.checks[CHOOSE i \in failed : \A j \in failed : i <= j].msg)

\* the generated __init__ of a dataclass called with keyword arguments a: a
\* field left out takes its default, a field left out that has none is a
\* TypeError; then __post_init__
DataclassInit(class, a) ==
    LET names   == Range(class.fields)
        missing == {f \in names : a[f] = NoArg /\ f \notin DOMAIN class.defaults}
        self    == [f \in names |-> IF a[f] = NoArg THEN class.defaults[f] ELSE a[f].v]
    IN  IF missing # {} THEN Raise("TypeError: missing required argument")
        ELSE LET r == PostInit(class, self)
             IN  IF r.ok THEN Ok([class |-> class.name, fields |-> self]) ELSE r

\* the component classes
Components ==
    <<GridPlate, Pool, Shroud, ReflectorCanister, SpecimenTube, RSRCavity, BeamPort,
      CentralThimble, TransientRod_Cladding, TransientRod_ElementPlug,
      TransientRod_MagneformFitting, TransientRod_Absorber, TransientRod_AirGap,
      FFCR_Cladding, FFCR_ElementPlug, FFCR_MagneformFitting, FFCR_Absorber,
      FFCR_FuelFollower, FFCR_ZrFillRod, FFCR_AirGap, SourceHolder_Cavity,
      SourceHolder_Cladding, FuelElement_FuelMeat>>

\* the values callers pass for a dimension
DimArgs == {NoArg, Given(0 - Inches(1)), Given(0)} \cup {Given(Inches(k)) : k \in 1 .. MaxDim}

\* obj = <Class>(field = .., ..)
ConstructComponent ==
    /\ op = "init"
    /\ \E i \in 1 .. Len(Components) :
         \E a \in [Range(Components[i].fields) -> DimArgs] :
            LET r == DataclassInit(Components[i], a)
            IN  /\ args' = [class |-> Components[i].name, given |-> a]
                /\ err' = IF r.ok THEN "none" ELSE r.msg
                /\ obj' = IF r.ok THEN r.val ELSE None
    /\ op' = "Component"
    /\ UNCHANGED <<fe, nmut, rods, sections, RING_MAP, core, core_map, insts, nid, DEFAULT_MPACT_SETTINGS>>

\* FuelFollowerControlRod(cladding = c, fuel_follower = ff): the two records are
\* stored as passed; __post_init__ looks at fraction_withdrawn and
\* maximum_withdrawal_distance only, and no field holds the follower's outer
\* radius
FuelFollowerControlRodOf(c, ff) ==
    LET r == FuelFollowerControlRod(Rod_fraction_withdrawn, Rod_maximum_withdrawal_distance)
    IN  IF ~r.ok THEN r
        ELSE Ok([r.val EXCEPT !.cladding = c, !.fuel_follower = ff])

\* obj = FuelFollowerControlRod(
\*           cladding      = FuelFollowerControlRod.Cladding(outer_radius = .., thickness = ..),
\*           fuel_follower = FuelFollowerControlRod.FuelFollower(inner_radius = ..))
\* the arguments are evaluated left to right, then the rod is built
ConstructFuelFollowerControlRodFromParts ==
    /\ op = "init"
    /\ \E o \in DimArgs, t \in DimArgs, i \in DimArgs :
         LET c  == DataclassInit(FFCR_Cladding, [outer_radius |-> o, thickness |-> t])
             ff == DataclassInit(FFCR_FuelFollower, [inner_radius |-> i, length |-> NoArg])
             r  == IF ~c.ok THEN c
                   ELSE IF ~ff.ok THEN ff
                   ELSE FuelFollowerControlRodOf(c.val.fields, ff.val.fields)
         IN  /\ args' = [outer_radius |-> o, thickness |-> t, inner_radius |-> i]
             /\ err' = IF r.ok THEN "none" ELSE r.msg
             /\ obj' = IF r.ok THEN r.val ELSE None
    /\ op' = "FuelFollowerControlRodFromParts"
    /\ UNCHANGED <<fe, nmut, rods, sections, RING_MAP, core, core_map, insts, nid, DEFAULT_MPACT_SETTINGS>>

(* ===== material factories (default_materials.py, NETL/default_materials.py) *)

\* temperatures are integers in 0.1 K, densities in 10^-6 of their unit
DEFAULT_TEMPERATURE == 2936

\* a factory: the name of the material it builds and the defaults of its
\* density and density_units parameters
Factory(name, density, density_units) ==
    [name |-> name, density |-> density, density_units |-> density_units]

fresh_fuel == Factory("Fresh_Fuel", 5850000, "g/cm3")
zirc_filler == Factory("Zirc_Filler", 40800, "atom/b-cm")
stainless_steel == Factory("Stainless_Steel", 85800, "atom/b-cm")
graphite == Factory("Graphite", 1600000, "g/cm3")
aluminum == Factory("Aluminum", 2700000, "g/cm3")
air == Factory("Air", 1225, "g/cm3")
molybdenum == Factory("Molybdenum", 10300000, "g/cm3")
water == Factory("Water", 1000000, "g/cm3")
control_rod_absorber == Factory("Control_Rod_Absorber", 2480000, "g/cm3")
cadmium == Factory("Cadmium", 8650000, "g/cm3")

Factories ==
    <<fresh_fuel, zirc_filler, stainless_steel, graphite, aluminum, air, molybdenum,
      water, control_rod_absorber, cadmium>>

\* the body every factory has: the assert on the temperature, then a new
\* openmc.Material with the temperature and the density set; id is the
\* identity of the object allocated
MaterialRejectsZero(factory, temperature, density, id) ==
    IF temperature <= 0 THEN Raise("Temperature must be positive in Kelvin.")
    ELSE Ok([kind |-> "Material", name |-> factory.name, temperature |-> temperature,
             density |-> density, density_units |-> factory.density_units, id |-> id])

Material(factory, temperature, density, id) ==
    IF temperature < 0 THEN Raise("Temperature must be positive in Kelvin.")
    ELSE Ok([kind |-> "Material", name |-> factory.name, temperature |-> temperature,
             density |-> density, density_units |-> factory.density_units, id |-> id])

\* the arguments callers pass to a factory
TemperatureArgs == {NoArg, Given(0 - 1), Given(0), Given(3000)}
DensityArgs == {NoArg, Given(1000000)}

\* obj = DefaultMaterials.<factory>(temperature = .., density = ..)
CallMaterialFactory ==
    /\ Len(insts) < MaxInst
    /\ \E i \in 1 .. Len(Factories), t \in TemperatureArgs, d \in DensityArgs :
         \* calls with explicit arguments are explored as the first operation only
         /\ (t # NoArg \/ d # NoArg) => op = "init"
         /\ LET factory == Factories[i]
                r == Material(factory,
                              IF t = NoArg THEN DEFAULT_TEMPERATURE ELSE t.v,
                              IF d = NoArg THEN factory.density ELSE d.v,
                              nid + 1)
            IN  /\ args' = [factory |-> factory.name, temperature |-> t, density |-> d]
                /\ err' = IF r.ok THEN "none" ELSE r.msg
                /\ obj' = IF r.ok THEN r.val ELSE None
                /\ insts' = IF r.ok THEN Append(insts, r.val) ELSE insts
                /\ nid' = IF r.ok THEN nid + 1 ELSE nid
    /\ op' = "factory"
    /\ UNCHANGED <<fe, nmut, rods, sections, RING_MAP, core, core_map, DEFAULT_MPACT_SETTINGS>>

\* the identity of an allocated object, and of a class object
Instance(n) == [id |-> n]
ClassObject(name) == [class |-> name]

\* the component classes whose fields all have defaults, with the factory of
\* their material field
DefaultMaterialOf ==
    <<<<Pool, water>>, <<Shroud, aluminum>>, <<ReflectorCanister, graphite>>,
      <<CentralThimble, aluminum>>, <<SourceHolder_Cladding, aluminum>>,
      <<TransientRod_Absorber, control_rod_absorber>>>>

\* obj = <Class>(): the instance, then its material from the default factory
ConstructDefaultComponent ==
    /\ Len(insts) < MaxInst
    /\ \E i \in 1 .. Len(DefaultMaterialOf) :
         LET class   == DefaultMaterialOf[i][1]
             factory == DefaultMaterialOf[i][2]
             inst    == [kind |-> class.name, id |-> nid + 1, fields |-> class.defaults,
                         material |-> Material(factory, DEFAULT_TEMPERATURE,
                                               factory.density, nid + 2).val]
         IN  /\ args' = [class |-> class.name]
             /\ obj' = inst
             /\ insts' = Append(insts, inst)
    /\ err' = "none"
    /\ nid' = nid + 2
    /\ op' = "default"
    /\ UNCHANGED <<fe, nmut, rods, sections, RING_MAP, core, core_map, DEFAULT_MPACT_SETTINGS>>

\* the instances a call of default_loading() allocates: the k-th value that
\* is not None is the k-th object allocated after base
Allocated(loading, i) == Cardinality({j \in 1 .. i : loading[j][2] # None})
WithIds(loading, base) ==
    [i \in 1 .. Len(loading) |->
        <<loading[i][1],
          IF loading[i][2] = None THEN None
          ELSE [kind |-> loading[i][2].kind, id |-> base + Allocated(loading, i)]>>]

\* a rod of Core_defaults allocated as object n
RodInstance(rod, n) == [kind |-> rod.kind, position |-> rod.position, id |-> n]

\* obj = TRIGA.Core(): the instance, then the default factories of its fields
\* in declaration order, then __post_init__ with its own default_loading()
ConstructDefaultCore ==
    /\ Len(insts) < MaxInst
    /\ LET n     == Allocated(default_loading, Len(default_loading))
           given == [pitch           |-> Core_defaults.pitch,
                     central_thimble |-> Core_defaults.central_thimble,
                     core_loading    |-> WithIds(default_loading, nid + 1),
                     transient_rod   |-> RodInstance(Core_defaults.transient_rod, nid + n + 2),
                     regulating_rod  |-> RodInstance(Core_defaults.regulating_rod, nid + n + 3),
                     shim_1_rod      |-> RodInstance(Core_defaults.shim_1_rod, nid + n + 4),
                     shim_2_rod      |-> RodInstance(Core_defaults.shim_2_rod, nid + n + 5)]
           r     == Core(RING_MAP, given)
           inst  == [kind |-> "Core", id |-> nid + 1, fields |-> r.val.self]
       IN  /\ args' = [class |-> "Core"]
           /\ obj' = inst
           /\ insts' = Append(insts, inst)
           /\ nid' = nid + 1 + n + 4 + n
    /\ err' = "none"
    /\ op' = "default"
    /\ UNCHANGED <<fe, nmut, rods, sections, RING_MAP, core, core_map, DEFAULT_MPACT_SETTINGS>>

(* ================ GraphiteElement (graphite_element.py) ================ *)

GraphiteMeat(outer_radius, length) ==
    IF ~(outer_radius > 0) THEN Raise("Graphite Meat outer radius must be positive.")
    ELSE IF ~(length > 0) THEN Raise("Graphite Meat length must be positive.")
    ELSE Ok([outer_radius |-> outer_radius, length |-> length])

GraphiteElement_Cladding(thickness, outer_radius) ==
    IF ~(thickness > 0) THEN Raise("Cladding thickness must be positive.")
    ELSE IF ~(outer_radius > 0) THEN Raise("Cladding outer radius must be positive.")
    ELSE Ok([thickness |-> thickness, outer_radius |-> outer_radius])

GraphiteElement_EndFitting(length, direction) ==
    IF ~(length > 0) THEN Raise("End Fitting length must be positive.")
    ELSE IF direction \notin {"up", "down"}
         THEN Raise("End Fitting direction must be either 'up' or 'down'.")
    ELSE Ok([length |-> length, direction |-> direction])

\* the default factories of the parts' fields: each builds a default
\* FuelElement, or one of its parts, and reads the value off it
GraphiteMeat_outer_radius ==
    FuelMeat(FuelMeat_inner_radius, FuelMeat_outer_radius, FuelMeat_length).val.outer_radius

\* a graphite meat as long as the fuel meat alone
GraphiteMeat_length_of_fuel_meat ==
    FuelMeat(FuelMeat_inner_radius, FuelMeat_outer_radius, FuelMeat_length).val.length

GraphiteMeat_length ==
    FuelElement(FuelElement_defaults).interior_length

GraphiteElement_Cladding_thickness ==
    Cladding(Cladding_thickness, Cladding_outer_radius).val.thickness

GraphiteElement_Cladding_outer_radius ==
    Cladding(Cladding_thickness, Cladding_outer_radius).val.outer_radius

\* GraphiteElement(graphite_meat = m), the other fields from their default
\* factories in declaration order; the class has no __post_init__
GraphiteElement(m) ==
    LET parts == <<GraphiteElement_Cladding(GraphiteElement_Cladding_thickness,
                                            GraphiteElement_Cladding_outer_radius),
                   GraphiteElement_EndFitting(
                       FuelElement(FuelElement_defaults).upper_end_fitting.length, "up"),
                   m,
                   GraphiteElement_EndFitting(
                       FuelElement(FuelElement_defaults).lower_end_fitting.length, "down")>>
        failed == {i \in 1 .. Len(parts) : ~parts[i].ok}
    IN  IF failed # {} THEN parts[CHOOSE i \in failed : \A j \in failed : i <= j]
        ELSE Ok([kind              |-> "GraphiteElement",
                 cladding          |-> parts[1].val,
                 upper_end_fitting |-> parts[2].val,
                 graphite_meat     |-> parts[3].val,
                 lower_end_fitting |-> parts[4].val])

\* obj = GraphiteElement()   or
\* obj = GraphiteElement(graphite_meat = GraphiteElement.GraphiteMeat(outer_radius = .., length = ..))
ConstructGraphiteElement ==
    /\ op = "init"
    /\ \E o \in DimArgs, l \in DimArgs :
         LET m == GraphiteMeat(IF o = NoArg THEN GraphiteMeat_outer_radius ELSE o.v,
                               IF l = NoArg THEN GraphiteMeat_length ELSE l.v)
             r == IF ~m.ok THEN m ELSE GraphiteElement(m)
         IN  /\ args' = [outer_radius |-> o, length |-> l]
             /\ err' = IF r.ok THEN "none" ELSE r.msg
             /\ obj' = IF r.ok THEN r.val ELSE None
    /\ op' = "GraphiteElement"
    /\ UNCHANGED <<fe, nmut, rods, sections, RING_MAP, core, core_map, insts, nid, DEFAULT_MPACT_SETTINGS>>

(* ===== the reactor and its grid plates (reactor.py, geometry_specs.py,
         NETL/default_geometries.py) *)

\* <Class>() and partial(<Class>, **kw)()
Default(class) == DataclassInit(class, [f \in Range(class.fields) |-> NoArg])
Partial(class, kw) ==
    DataclassInit(class, [f \in Range(class.fields) |->
                             IF f \in DOMAIN kw THEN Given(kw[f]) ELSE NoArg])

\* the keyword arguments of the grid plate default factories of Reactor
Reactor_upper_grid_plate ==
    [thickness                      |-> In(6200),
     fuel_penetration_radius        |-> In(7525),
     control_rod_penetration_radius |-> In(15050),
     distance_from_core_centerline  |-> In(127500)]

\* a Reactor whose lower grid plate sits at the upper plate's distance
Reactor_lower_grid_plate_at_upper_distance ==
    [thickness                      |-> In(12500),
     fuel_penetration_radius        |-> In(6250),
     control_rod_penetration_radius |-> In(15050),
     distance_from_core_centerline  |-> In(127500)]

Reactor_lower_grid_plate ==
    [thickness                      |-> In(12500),
     fuel_penetration_radius        |-> In(6250),
     control_rod_penetration_radius |-> In(15050),
     distance_from_core_centerline  |-> In(130600)]

\* the same of the TRIGA dataclass
TRIGA_upper_grid_plate ==
    [thickness                      |-> In(6200),
     fuel_penetration_radius        |-> In(7525),
     control_rod_penetration_radius |-> In(15050),
     distance_from_core_centerline  |-> In(127500)]

TRIGA_lower_grid_plate ==
    [thickness                      |-> In(12500),
     fuel_penetration_radius        |-> In(6250),
     control_rod_penetration_radius |-> In(15050),
     distance_from_core_centerline  |-> In(130600)]

\* the keyword arguments DefaultGeometries passes to the geometry library's
\* GridPlate
DefaultGeometries_upper_grid_plate ==
    [thickness                      |-> In(6200),
     fuel_penetration_radius        |-> In(7525),
     control_rod_penetration_radius |-> In(7525)]

DefaultGeometries_lower_grid_plate ==
    [thickness                      |-> In(12500),
     fuel_penetration_radius        |-> In(6250),
     control_rod_penetration_radius |-> In(7525)]

\* default_beamport_1_5() .. default_beamport_4(): BeamPort with its default
\* radii; the ports differ in translation (10^-6 cm here), rotation and
\* termination plane
BeamPortAt(translation, rotation) ==
    LET r == Default(BeamPort)
    IN  IF ~r.ok THEN r
        ELSE Ok([class |-> r.val.class, fields |-> r.val.fields,
                 translation |-> translation, rotation |-> rotation])

\* the default_factory of BeamPort.rotation, direction angles in degrees
BeamPort_rotation == <<<<0, 90, 90>>, <<90, 0, 90>>, <<90, 90, 0>>>>

default_beamport_1_5 ==
    BeamPortAt(<<35242500, 0, 0 - 6985000>>,
               <<<<90, 180, 90>>, <<0, 90, 90>>, <<90, 90, 0>>>>)
default_beamport_2 ==
    BeamPortAt(<<6222000, 35255000, 0 - 6985000>>,
               <<<<150, 60, 90>>, <<120, 150, 90>>, <<90, 90, 0>>>>)
default_beamport_3 == BeamPortAt(<<0, 0, 0 - 6985000>>, BeamPort_rotation)
default_beamport_4 ==
    BeamPortAt(<<0 - 13216000, 22871000, 0 - 6985000>>,
               <<<<75, 60, 90>>, <<120, 75, 90>>, <<90, 90, 0>>>>)

\* Core() of NETL/core.py, the class the core field of Reactor is built from:
\* a core loading map with a positive pitch, 1.714 in by default
NETL_Core == Ok([kind |-> "Core", pitch |-> In(17140)])

\* Reactor() and TRIGA(): the default factories of the fields in declaration
\* order; the first that raises ends the construction. The core of Reactor is
\* the Core of NETL/core.py, the core of TRIGA is TRIGA.Core
Reactor(cls) ==
    LET upper == IF cls = "Reactor" THEN Reactor_upper_grid_plate ELSE TRIGA_upper_grid_plate
        lower == IF cls = "Reactor" THEN Reactor_lower_grid_plate ELSE TRIGA_lower_grid_plate
        c     == Core(RingMapLiteral,
                      [pitch           |-> Core_defaults.pitch,
                       central_thimble |-> Core_defaults.central_thimble,
                       core_loading    |-> default_loading,
                       transient_rod   |-> Core_defaults.transient_rod,
                       regulating_rod  |-> Core_defaults.regulating_rod,
                       shim_1_rod      |-> Core_defaults.shim_1_rod,
                       shim_2_rod      |-> Core_defaults.shim_2_rod])
        parts == <<Default(Pool), Default(ReflectorCanister), Default(Shroud),
                   default_beamport_1_5, default_beamport_2, default_beamport_3,
                   default_beamport_4, Default(RSRCavity),
                   IF cls = "Reactor" THEN NETL_Core
                   ELSE IF c.ok THEN Ok(c.val.self) ELSE c,
                   Partial(GridPlate, upper), Partial(GridPlate, lower)>>
        failed == {i \in 1 .. Len(parts) : ~parts[i].ok}
    IN  IF failed # {} THEN parts[CHOOSE i \in failed : \A j \in failed : i <= j]
        ELSE Ok([kind                        |-> cls,
                 pool                        |-> parts[1].val,
                 reflector_canister          |-> parts[2].val,
                 shroud                      |-> parts[3].val,
                 beam_port_1_5               |-> parts[4].val,
                 beam_port_2                 |-> parts[5].val,
                 beam_port_3                 |-> parts[6].val,
                 beam_port_4                 |-> parts[7].val,
                 rotary_specimen_rack_cavity |-> parts[8].val,
                 core                        |-> parts[9].val,
                 upper_grid_plate            |-> parts[10].val,
                 lower_grid_plate            |-> parts[11].val])

\* obj = Reactor()   or   obj = TRIGA()
ConstructDefaultReactor ==
    /\ op = "init"
    /\ \E cls \in {"Reactor", "TRIGA"} :
         LET r == Reactor(cls)
         IN  /\ args' = [class |-> cls]
             /\ err' = IF r.ok THEN "none" ELSE r.msg
             /\ obj' = IF r.ok THEN r.val ELSE None
    /\ op' = "Reactor"
    /\ UNCHANGED <<fe, nmut, rods, sections, RING_MAP, core, core_map, insts, nid, DEFAULT_MPACT_SETTINGS>>

\* DefaultGeometries.upper_grid_plate() / .lower_grid_plate(): obj records
\* the dimensions the plate is built from
DefaultGridPlate ==
    /\ op = "init"
    /\ \E which \in {"upper_grid_plate", "lower_grid_plate"} :
         /\ args' = [class |-> "DefaultGeometries", method |-> which]
         /\ obj' = [name   |-> which,
                    fields |-> IF which = "upper_grid_plate"
                               THEN DefaultGeometries_upper_grid_plate
                               ELSE DefaultGeometries_lower_grid_plate]
    /\ err' = "none"
    /\ op' = "DefaultGeometries"
    /\ UNCHANGED <<fe, nmut, rods, sections, RING_MAP, core, core_map, insts, nid, DEFAULT_MPACT_SETTINGS>>

(* ===== element dispatch (problem_1_utils.py, problem_2_utils.py,
         problem_3_utils.py) *)

\* an instance of class `kind` with the given attributes
Element(kind, attributes) == [kind |-> kind] @@ attributes

\* isinstance(element, cls)
IsInstance(element, cls) == "kind" \in DOMAIN element /\ element.kind = cls

\* the coolant every builder is called with
Coolant == "water"

\* problem_2_utils.build_coolant_pincell: the dimensions of TRIGA.FuelElement(),
\* every material the coolant
build_coolant_pincell ==
    LET filler == FuelElement(FuelElement_defaults)
    IN  Ok([cladding       |-> filler.cladding,
            fuel_meat      |-> filler.fuel_meat,
            zr_fill_rod    |-> filler.zr_fill_rod,
            fill_gas       |-> Coolant,
            outer_material |-> Coolant])

\* problem_1_utils.build_fuel_pincell: reads fuel.fill_gas
build_fuel_pincell(fuel) ==
    IF "fill_gas" \notin DOMAIN fuel THEN AttributeError(fuel, "fill_gas")
    ELSE Ok([cladding       |-> fuel.cladding,
             fuel_meat      |-> fuel.fuel_meat,
             zr_fill_rod    |-> fuel.zr_fill_rod,
             fill_gas       |-> fuel.fill_gas,
             outer_material |-> Coolant])

build_graphite_pincell(element) ==
    Ok([cladding       |-> element.cladding,
        graphite_meat  |-> element.graphite_meat,
        outer_material |-> Coolant])

build_central_thimble_pincell(element) ==
    Ok([thickness      |-> element.outer_radius - element.inner_radius,
        outer_radius   |-> element.outer_radius,
        fill_material  |-> Coolant,
        outer_material |-> Coolant])

build_source_holder_pincell(element) ==
    Ok([cavity         |-> [radius |-> element.cavity.radius,
                            length |-> element.cavity.length],
        cladding       |-> [outer_radius |-> element.cladding.outer_radius],
        outer_material |-> Coolant])

\* the branch of the if/elif chain an element takes, shared by
\* build_element_pincell_geometry and build_element_geometry
Dispatch(element) ==
    IF element = None THEN "None"
    ELSE IF IsInstance(element, "FuelElement") THEN "FuelElement"
    ELSE IF IsInstance(element, "GraphiteElement") THEN "GraphiteElement"
    ELSE IF IsInstance(element, "CentralThimble") THEN "CentralThimble"
    ELSE IF IsInstance(element, "SourceHolder") THEN "SourceHolder"
    ELSE IF IsInstance(element, "TransientRod") THEN "TransientRod"
    ELSE IF IsInstance(element, "FuelFollowerControlRod") THEN "FuelFollowerControlRod"
    ELSE "else"

\* type(element) as the error message prints it: the class name qualified by
\* the module that defines the class
ModuleOf(kind) ==
    CASE kind = "FuelElement"     -> "progression_problems.TRIGA.fuel_element"
      [] kind = "GraphiteElement" -> "progression_problems.TRIGA.graphite_element"
      [] kind = "CentralThimble"  -> "progression_problems.TRIGA.NETL.central_thimble"
      [] kind = "SourceHolder"    -> "progression_problems.TRIGA.NETL.source_holder"
      [] kind = "TransientRod"    -> "progression_problems.TRIGA.NETL.transient_rod"
      [] kind = "FuelFollowerControlRod" ->
            "progression_problems.TRIGA.NETL.fuel_follower_control_rod"
      [] kind = "Pool"            -> "progression_problems.TRIGA.NETL.pool"

TypeName(element) ==
    IF "kind" \in DOMAIN element
    THEN "<class '" \o ModuleOf(element.kind) \o "." \o element.kind \o "'>"
    ELSE "<class 'type'>"

UnsupportedElement(element) ==
    Raise("ValueError: Unsupported element type: " \o TypeName(element))

\* problem_2_utils.build_element_pincell_geometry
build_element_pincell_geometry(element) ==
    CASE Dispatch(element) = "None"            -> build_coolant_pincell
      [] Dispatch(element) = "FuelElement"     -> build_fuel_pincell(element)
      [] Dispatch(element) = "GraphiteElement" -> build_graphite_pincell(element)
      [] Dispatch(element) = "CentralThimble"  -> build_central_thimble_pincell(element)
      [] Dispatch(element) = "SourceHolder"    -> build_source_holder_pincell(element)
      [] Dispatch(element) = "TransientRod"    -> build_transient_rod_pincell(element)
      [] Dispatch(element) = "FuelFollowerControlRod" -> build_ffcr_pincell(element)
      [] OTHER -> UnsupportedElement(element)

\* problem_3_utils.build_coolant_element .. build_ffcr_element: the full
\* length elements; the fuel and FFCR builders read element.fill_gas
build_coolant_element ==
    LET filler == FuelElement(FuelElement_defaults)
    IN  Ok([cladding          |-> filler.cladding,
            upper_end_fitting |-> filler.upper_end_fitting,
            fuel_meat         |-> filler.fuel_meat,
            lower_end_fitting |-> filler.lower_end_fitting,
            fill_gas          |-> Coolant,
            outer_material    |-> Coolant])

build_fuel_element(fuel) ==
    IF "fill_gas" \notin DOMAIN fuel THEN AttributeError(fuel, "fill_gas")
    ELSE Ok([cladding          |-> fuel.cladding,
             upper_end_fitting |-> fuel.upper_end_fitting,
             fuel_meat         |-> fuel.fuel_meat,
             lower_end_fitting |-> fuel.lower_end_fitting,
             fill_gas          |-> fuel.fill_gas,
             outer_material    |-> Coolant])

build_graphite_element(element) ==
    Ok([cladding          |-> element.cladding,
        upper_end_fitting |-> element.upper_end_fitting,
        graphite_meat     |-> element.graphite_meat,
        lower_end_fitting |-> element.lower_end_fitting,
        outer_material    |-> Coolant])

build_central_thimble_element(element) ==
    Ok([thickness      |-> element.outer_radius - element.inner_radius,
        outer_radius   |-> element.outer_radius,
        fill_material  |-> Coolant,
        outer_material |-> Coolant])

\* source_holder_length of build_source_holder_element, the plate distances
\* and the upper plate's thickness being those of NETL.Reactor()
source_holder_length(upper_distance, lower_distance, distance_from_lower_grid_plate, upper_thickness) ==
    upper_distance + lower_distance - distance_from_lower_grid_plate + upper_thickness

build_source_holder_element(element) ==
    Ok([length         |-> source_holder_length(
                               Reactor_upper_grid_plate.distance_from_core_centerline,
                               Reactor_lower_grid_plate.distance_from_core_centerline,
                               element.distance_from_lower_grid_plate,
                               Reactor_upper_grid_plate.thickness),
        cavity         |-> [radius |-> element.cavity.radius,
                            length |-> element.cavity.length],
        cladding       |-> [outer_radius |-> element.cladding.outer_radius],
        outer_material |-> Coolant])

build_transient_rod_element(element) ==
    IF "fill_gas" \notin DOMAIN element THEN AttributeError(element, "fill_gas")
    ELSE Ok([cladding       |-> element.cladding,
             absorber       |-> element.absorber,
             air_follower   |-> element.air_follower,
             fill_gas       |-> element.fill_gas,
             outer_material |-> Coolant])

build_ffcr_element(element) ==
    IF "fill_gas" \notin DOMAIN element THEN AttributeError(element, "fill_gas")
    ELSE Ok([cladding       |-> element.cladding,
             absorber       |-> element.absorber,
             fuel_follower  |-> element.fuel_follower,
             zr_fill_rod    |-> element.zr_fill_rod,
             fill_gas       |-> element.fill_gas,
             outer_material |-> Coolant])

\* problem_3_utils.build_element_geometry
build_element_geometry(element) ==
    CASE Dispatch(element) = "None"            -> build_coolant_element
      [] Dispatch(element) = "FuelElement"     -> build_fuel_element(element)
      [] Dispatch(element) = "GraphiteElement" -> build_graphite_element(element)
      [] Dispatch(element) = "CentralThimble"  -> build_central_thimble_element(element)
      [] Dispatch(element) = "SourceHolder"    -> build_source_holder_element(element)
      [] Dispatch(element) = "TransientRod"    -> build_transient_rod_element(element)
      [] Dispatch(element) = "FuelFollowerControlRod" -> build_ffcr_element(element)
      [] OTHER -> UnsupportedElement(element)

\* the elements callers pass: None, a default instance of each of the six
\* classes (the rods inserted and withdrawn), the class object that
\* Core().central_thimble holds, and a Pool
Elements ==
    <<None,
      Element("FuelElement", FuelElement(FuelElement_defaults)),
      GraphiteElement(GraphiteMeat(GraphiteMeat_outer_radius, GraphiteMeat_length)).val,
      Element("CentralThimble", Default(CentralThimble).val.fields),
      Element("SourceHolder",
              [cavity   |-> Default(SourceHolder_Cavity).val.fields,
               cladding |-> Default(SourceHolder_Cladding).val.fields,
               core_centerline_offset |-> 0,
               distance_from_lower_grid_plate |-> Cm(11934)]),
      TransientRod(0, Rod_maximum_withdrawal_distance).val,
      TransientRod(FracDen, Rod_maximum_withdrawal_distance).val,
      FuelFollowerControlRod(0, Rod_maximum_withdrawal_distance).val,
      FuelFollowerControlRod(FracDen, Rod_maximum_withdrawal_distance).val,
      Core_defaults.central_thimble,
      Element("Pool", Default(Pool).val.fields)>>

\* obj = build_element_pincell_geometry(element, coolant)   or
\* obj = build_element_geometry(element, coolant)
BuildElement ==
    /\ op = "init"
    /\ \E i \in 1 .. Len(Elements),
          function \in {"build_element_pincell_geometry", "build_element_geometry"} :
         LET element == Elements[i]
             r == IF function = "build_element_pincell_geometry"
                  THEN build_element_pincell_geometry(element)
                  ELSE build_element_geometry(element)
         IN  /\ args' = [function |-> function, element |-> element]
             /\ err' = IF r.ok THEN "none" ELSE r.msg
             /\ obj' = IF r.ok THEN r.val ELSE None
    /\ op' = "build_element"
    /\ UNCHANGED <<fe, nmut, rods, sections, RING_MAP, core, core_map, insts, nid, DEFAULT_MPACT_SETTINGS>>

(* ===== axial placement of the lattice elements (problem_4_utils.py) ==== *)

\* a placement that takes a source holder for a control rod
element_bottom_axial_position_of_control_rod(kind, length, control_rod_bottom_position, upper_distance, upper_thickness) ==
    IF kind \in {"FuelElement", "GraphiteElement", "CentralThimble"}
    THEN -(length \div 2)
    ELSE control_rod_bottom_position

\* element_bottom_axial_position in the loop of build_openmc_model: fuel,
\* graphite and thimble are centred, the source holder hangs from the upper
\* grid plate, anything else sits at control_rod_bottom_position
element_bottom_axial_position(kind, length, control_rod_bottom_position, upper_distance, upper_thickness) ==
    IF kind \in {"FuelElement", "GraphiteElement", "CentralThimble"}
    THEN -(length \div 2)
    ELSE IF kind = "SourceHolder"
    THEN upper_distance + upper_thickness - length
    ELSE control_rod_bottom_position

\* the values the grid plate distances, the upper plate's thickness, the source
\* holder's distance from the lower plate and the rod position are drawn from
PlateDistances ==
    {Reactor_upper_grid_plate.distance_from_core_centerline,
     Reactor_lower_grid_plate.distance_from_core_centerline, In(10000)}
PlateThicknesses == {Reactor_upper_grid_plate.thickness, In(12500)}
HolderDistances == {0, Cm(11934), In(10000)}
RodBottomPositions == {-In(150000), 0, In(10000)}
PlacedKinds == {"SourceHolder", "CentralThimble", "TransientRod"}

\* one element of the lattice is built and placed: a source holder gets the
\* length build_source_holder_element gives it, the others a length of their own
PlaceElement ==
    /\ \E kind \in PlacedKinds, upper_distance \in PlateDistances,
          lower_distance \in PlateDistances, upper_thickness \in PlateThicknesses,
          distance_from_lower_grid_plate \in HolderDistances,
          control_rod_bottom_position \in RodBottomPositions :
         LET length == IF kind = "SourceHolder"
                       THEN source_holder_length(upper_distance, lower_distance,
                                distance_from_lower_grid_plate, upper_thickness)
                       ELSE upper_distance + lower_distance
         IN  /\ args' = [kind |-> kind, upper_distance |-> upper_distance,
                         lower_distance |-> lower_distance,
                         upper_thickness |-> upper_thickness,
                         distance_from_lower_grid_plate |-> distance_from_lower_grid_plate,
                         control_rod_bottom_position |-> control_rod_bottom_position]
             /\ obj' = [length |-> length,
                        bottom |-> element_bottom_axial_position(kind, length,
                                       control_rod_bottom_position, upper_distance,
                                       upper_thickness)]
    /\ op' = "place_element"
    /\ err' = "none"
    /\ UNCHANGED <<fe, nmut, rods, sections, RING_MAP, core, core_map, insts, nid, DEFAULT_MPACT_SETTINGS>>

(* ===== MPACT input (utils.py, problem_1_utils.py, problem_2_utils.py) === *)

\* a Python dict with string keys is a function; dict.get and d[k] = v
Get(d, k, default) == IF k \in DOMAIN d THEN d[k] ELSE default
Put(d, k, v) == [x \in DOMAIN d \cup {k} |-> IF x = k THEN v ELSE d[x]]

\* utils.DEFAULT_MPACT_SETTINGS as the module defines it
DefaultMpactSettingsLiteral ==
    [state   |-> [rated_power |-> "1.0", power |-> "1.0", pressure |-> "1.0",
                  rated_flow |-> "1.0"],
     xsec    |-> [xsshielder |-> "T SUBGROUP"],
     options |-> [solver |-> "1 2", ray |-> "0.05 CHEBYSHEV-YAMAMOTO 16 3",
                  conv_crit |-> "1.0E-6 1.0E-6", iter_lim |-> "50 1 1",
                  vis_edits |-> "F", scatt_meth |-> "TCP0", nodal |-> "T SP3",
                  axial_tl |-> "T ISO LFLAT", parallel |-> "1 1 1 1"]]

\* seq[start:-stop] of Python, start and stop not negative
Slice(seq, start, stop) == SubSeq(seq, start + 1, Len(seq) - stop)

\* the trimming of write_mpact_input (problem 2):
\* [list(row[1:-2]) for row in assembly_map[3:-4]]
TrimAssemblyMap(assembly_map) ==
    LET rows == Slice(assembly_map, 3, 4)
    IN  [r \in 1 .. Len(rows) |-> Slice(rows[r], 1, 2)]

\* the assembly map the MPACT builder returns for the lattice: rows x cols
\* assemblies, each named by its place in the map
AssemblyMap(rows, cols) == [r \in 1 .. rows |-> [c \in 1 .. cols |-> <<r, c>>]]

\* the fuel elements callers pass: TRIGA.FuelElement(), which has no fill_gas
\* attribute, and a fuel element that carries one
Fuels ==
    <<Element("FuelElement", FuelElement(FuelElement_defaults)),
      Element("FuelElement", FuelElement(FuelElement_defaults) @@ [fill_gas |-> "air"])>>

XsLibs == {"mpact51g.fmt", "mpact8g.fmt"}

\* the central elements callers pass: nothing (coolant), a graphite element,
\* a central thimble
CentralElements == <<Elements[1], Elements[3], Elements[4]>>

\* f"{coolant.temperature}" of the coolants callers pass
CoolantTemperatures == {"293.6", "350.0"}

\* the dicts a caller passes instead of the defaults
CallerState == [power |-> "0.5", tinlet |-> "300.0"]
CallerXsec == [xsshielder |-> "F"]
CallerOptions == [solver |-> "1 3"]

\* the three updates before the model is written; a dict passed by default is
\* the module-level dict itself, so the update is made there
UpdateState(state, coolant) == Put(state, "tinlet", Get(state, "tinlet", coolant))
UpdateXsec(xsec_settings, xslib) == Put(xsec_settings, "xslib", Get(xsec_settings, "xslib", xslib))
UpdateOptions(options) == Put(options, "rr_edits", Get(options, "rr_edits", "HDF5"))

\* problem_1_utils.write_mpact_input(fuel, coolant, xslib[, states, xsec_settings, options])
WriteMpactInput1 ==
    /\ \E i \in 1 .. Len(Fuels), coolant \in CoolantTemperatures, xslib \in XsLibs,
          own_states \in BOOLEAN, own_xsec \in BOOLEAN, own_options \in BOOLEAN :
         LET pincell == build_fuel_pincell(Fuels[i])
             state   == UpdateState(IF own_states THEN CallerState
                                    ELSE DEFAULT_MPACT_SETTINGS.state, coolant)
             xsec    == UpdateXsec(IF own_xsec THEN CallerXsec
                                   ELSE DEFAULT_MPACT_SETTINGS.xsec, xslib)
             options == UpdateOptions(IF own_options THEN CallerOptions
                                      ELSE DEFAULT_MPACT_SETTINGS.options)
         IN  /\ args' = [fuel |-> Fuels[i], coolant |-> coolant, xslib |-> xslib,
                         own_states |-> own_states,
                         own_xsec |-> own_xsec, own_options |-> own_options]
             /\ IF ~pincell.ok
                THEN /\ err' = pincell.msg
                     /\ obj' = None
                     /\ UNCHANGED DEFAULT_MPACT_SETTINGS
                ELSE /\ err' = "none"
                     /\ obj' = [core_map |-> <<<<"NE", "SW">>>>, states |-> <<state>>,
                                xsec |-> xsec, options |-> options]
                     /\ DEFAULT_MPACT_SETTINGS' =
                           [state   |-> IF own_states THEN DEFAULT_MPACT_SETTINGS.state
                                        ELSE state,
                            xsec    |-> IF own_xsec THEN DEFAULT_MPACT_SETTINGS.xsec
                                        ELSE xsec,
                            options |-> IF own_options THEN DEFAULT_MPACT_SETTINGS.options
                                        ELSE options]
    /\ op' = "write_mpact_input_1"
    /\ UNCHANGED <<fe, nmut, rods, sections, RING_MAP, core, core_map, insts, nid>>

\* problem_2_utils.build_multicell_geometry: the pincells of the 19 lattice
\* positions, 18 of the fuel and the central one; the first that fails ends it
build_multicell_geometry(fuel, central_element) ==
    LET f == build_element_pincell_geometry(fuel)
        c == build_element_pincell_geometry(central_element)
    IN  IF ~f.ok THEN f
        ELSE IF ~c.ok THEN c
        ELSE Ok([fuel |-> f.val, central_element |-> c.val])

\* problem_2_utils.write_mpact_input(fuel, coolant, central_element, xslib[, ..]):
\* options is passed on as it is
WriteMpactInput2 ==
    /\ \E i \in 1 .. Len(Fuels), e \in 1 .. Len(CentralElements),
          coolant \in CoolantTemperatures, xslib \in XsLibs,
          rows \in (MaxRows - 1) .. MaxRows, cols \in {MaxCols},
          own_states \in BOOLEAN, own_xsec \in BOOLEAN :
         LET lattice == build_multicell_geometry(Fuels[i], CentralElements[e])
             state   == UpdateState(IF own_states THEN CallerState
                                    ELSE DEFAULT_MPACT_SETTINGS.state, coolant)
             xsec    == UpdateXsec(IF own_xsec THEN CallerXsec
                                   ELSE DEFAULT_MPACT_SETTINGS.xsec, xslib)
         IN  /\ args' = [fuel |-> Fuels[i], central_element |-> CentralElements[e],
                         coolant |-> coolant, xslib |-> xslib, assembly_map |-> AssemblyMap(rows, cols),
                         own_states |-> own_states, own_xsec |-> own_xsec]
             /\ IF ~lattice.ok
                THEN /\ err' = lattice.msg
                     /\ obj' = None
                     /\ UNCHANGED DEFAULT_MPACT_SETTINGS
                ELSE /\ err' = "none"
                     /\ obj' = [core_map |-> TrimAssemblyMap(AssemblyMap(rows, cols)),
                                states |-> <<state>>, xsec |-> xsec,
                                options |-> DEFAULT_MPACT_SETTINGS.options]
                     /\ DEFAULT_MPACT_SETTINGS' =
                           [state   |-> IF own_states THEN DEFAULT_MPACT_SETTINGS.state
                                        ELSE state,
                            xsec    |-> IF own_xsec THEN DEFAULT_MPACT_SETTINGS.xsec
                                        ELSE xsec,
                            options |-> DEFAULT_MPACT_SETTINGS.options]
    /\ op' = "write_mpact_input_2"
    /\ UNCHANGED <<fe, nmut, rods, sections, RING_MAP, core, core_map, insts, nid>>

(* ======================== specifications =============================== *)

Init ==
    /\ op = "init"
    /\ err = "none"
    /\ args = None
    /\ fe = None
    /\ nmut = 0
    /\ rods = [s \in Slots |-> None]
    /\ sections = [s \in Slots |-> None]
    /\ RING_MAP = RingMapLiteral
    /\ core = None
    /\ core_map = None
    /\ obj = None
    /\ insts = <<>>
    /\ nid = 0
    /\ DEFAULT_MPACT_SETTINGS = DefaultMpactSettingsLiteral

\* the FuelElement and its attribute assignments
NextFuelElement == ConstructFuelElement \/ SetPartDimension \/ ReplacePart
SpecFuelElement == Init /\ [][NextFuelElement]_vars

\* the control rods and their pincells
NextControlRod ==
    \/ ConstructTransientRod
    \/ ConstructFuelFollowerControlRod
    \/ SetFractionWithdrawn
    \/ BuildRodPincell
SpecControlRod == Init /\ [][NextControlRod]_vars

\* the core
NextCore == ConstructCore \/ DefaultGeometriesCore
SpecCore == Init /\ [][NextCore]_vars

\* one construction, of a core or of a composite assembly
NextConstruction ==
    \/ ConstructCore
    \/ ConstructFuelElement
    \/ ConstructGraphiteElement
    \/ ConstructFuelFollowerControlRodFromParts
    \/ ConstructRod
SpecConstruction == Init /\ [][NextConstruction]_vars

\* the standalone component dataclasses
NextComponent ==
    \/ ConstructComponent
    \/ ConstructFuelFollowerControlRodFromParts
    \/ ConstructDefaultReactor
    \/ DefaultGridPlate
    \/ ConstructGraphiteElement
    \/ BuildElement
SpecComponent == Init /\ [][NextComponent]_vars

\* the factories and the objects built with default arguments
NextInstances == CallMaterialFactory \/ ConstructDefaultComponent \/ ConstructDefaultCore
SpecInstances == Init /\ [][NextInstances]_vars

\* the axial placement of the lattice elements
NextPlacement == PlaceElement
SpecPlacement == Init /\ [][NextPlacement]_vars

\* the MPACT input writers
NextMpact == WriteMpactInput1 \/ WriteMpactInput2
SpecMpact == Init /\ [][NextMpact]_vars

Next == NextMpact \/ NextPlacement \/ NextConstruction \/ NextFuelElement \/ NextControlRod \/ NextCore \/ NextComponent \/ NextInstances
Spec == Init /\ [][Next]_vars

(* ============================= claims ================================== *)

\* the sum of the five axial constituents of the existing FuelElement
SumOfAxialParts ==
    fe.lower_graphite_reflector.thickness + fe.moly_disc.thickness
    + fe.fuel_meat.length + fe.upper_graphite_reflector.thickness
    + fe.upper_air_gap.thickness

\* C1: when FuelElement(...) returns, interior_length is the sum of the
\* lower reflector thickness, the moly disc thickness, the fuel meat length, the
\* upper reflector thickness and the upper air gap thickness, whatever the end
\* fittings, the cladding and the Zr fill rod are.
C1_InteriorLengthAtConstruction ==
    (op = "FuelElement" /\ err = "none") => fe.interior_length = SumOfAxialParts

\* a FuelElement built from a caller's fuel meat, air gap, end fitting and Zr rod
C1_Witness ==
    /\ op = "FuelElement"
    /\ err = "none"
    /\ args["fuel_meat"] = Given(Inches(1))
    /\ args["upper_air_gap"] = Given(Inches(1))
    /\ args["upper_end_fitting"] = Given(Inches(1))
    /\ args["zr_fill_rod"] = Given(Inches(1))
    /\ args["moly_disc"] = NoArg
    /\ fe.interior_length = Inches(1) + Inches(1) + In(310) + In(25600) + In(37200)

\* C2: in every state, the interior_length of the existing FuelElement is
\* the sum of its five current axial constituents (never a stale value).
C2_InteriorLengthNeverStale ==
    fe # None => fe.interior_length = SumOfAxialParts

\* the validation predicates of the existing records
RodValid(r) ==
    /\ r.fraction_withdrawn >= 0
    /\ r.fraction_withdrawn <= FracDen
    /\ r.maximum_withdrawal_distance > 0

FuelElementPartsValid(e) ==
    \A f \in AxialParts \cup OtherParts : e[f][DimField(f)] > 0

\* C3: records never change after construction, so every existing rod keeps
\* 0 <= fraction_withdrawn <= 1 and maximum_withdrawal_distance > 0, and every
\* existing part keeps its dimension > 0, in every state.
C3_RecordsStayValid ==
    /\ \A s \in Slots : rods[s] # None => RodValid(rods[s])
    /\ fe # None => FuelElementPartsValid(fe)

\* the rod the last constructor call returned: the highest filled slot
LastRod ==
    rods[CHOOSE s \in Slots : rods[s] # None /\ \A t \in Slots : t > s => rods[t] = None]

\* C4: TransientRod(...) and FuelFollowerControlRod(...) with valid parts fail
\* if and only if fraction_withdrawn < 0, fraction_withdrawn > 1 or
\* maximum_withdrawal_distance <= 0; otherwise the rod holds exactly the
\* fraction and the distance passed (0.0 and 1.0 included, nothing is clamped).
C4_RodValidation ==
    op \in {"TransientRod", "FuelFollowerControlRod"} =>
        /\ err # "none" <=> \/ args.fraction_withdrawn < 0
                            \/ args.fraction_withdrawn > FracDen
                            \/ args.maximum_withdrawal_distance <= 0
        /\ err = "none" =>
              /\ LastRod.kind = op
              /\ LastRod.fraction_withdrawn = args.fraction_withdrawn
              /\ LastRod.maximum_withdrawal_distance = args.maximum_withdrawal_distance

\* a FuelFollowerControlRod accepted at fraction_withdrawn = 1.0 after a
\* TransientRod accepted at 0.0
C4_Witness ==
    /\ op = "FuelFollowerControlRod"
    /\ err = "none"
    /\ args.fraction_withdrawn = FracDen
    /\ rods[2] # None
    /\ rods[2].fraction_withdrawn = FracDen
    /\ rods[1].kind = "TransientRod"
    /\ rods[1].fraction_withdrawn = 0

\* the follower section of each rod class
Follower(kind) == IF kind = "TransientRod" THEN "air_follower" ELSE "fuel_follower"

\* C5: the section a pincell build selects is a function of the rod's
\* fraction_withdrawn alone: the absorber at 0, the follower (air follower of a
\* TransientRod, fuel follower of a FuelFollowerControlRod) above 0, the same for
\* any two rods of one class with equal fractions, and nothing else.
C5_SectionIsFunctionOfFraction ==
    /\ \A s \in Slots :
          sections[s] # None =>
              /\ sections[s].result.ok
              /\ sections[s].result.val.section \in {"absorber", Follower(sections[s].kind)}
              /\ sections[s].fraction_withdrawn = 0 =>
                    sections[s].result.val.section = "absorber"
              /\ sections[s].fraction_withdrawn > 0 =>
                    sections[s].result.val.section = Follower(sections[s].kind)
    /\ \A s, t \in Slots :
          (/\ sections[s] # None
           /\ sections[t] # None
           /\ sections[s].kind = sections[t].kind
           /\ sections[s].fraction_withdrawn = sections[t].fraction_withdrawn)
          => sections[s].result = sections[t].result

\* the positions of the keys of the core_loading passed to Core(...), in
\* iteration order, that are no location of RING_MAP, and that are reserved
InvalidAt  == {i \in 1 .. Len(args.core_loading) :
                  ~InRingMap(RING_MAP, args.core_loading[i][1])}
ReservedAt == {i \in 1 .. Len(args.core_loading) :
                  args.core_loading[i][1] \in ReservedLocations}
First(S) == CHOOSE k \in S : \A j \in S : k <= j
KeyAt(i) == args.core_loading[i][1]

\* C6 as stated: Core(...) whose core_loading has a key that is no location of
\* RING_MAP fails with the invalid-location error, whatever the other keys are.
C6_InvalidKeyRaisesInvalidLocation ==
    (op = "Core" /\ InvalidAt # {}) =>
        \E i \in InvalidAt : err = InvalidLocationError(KeyAt(i))

\* C6: Core(...) whose core_loading has a key that is no location of RING_MAP
\* fails and leaves no Core; the error is the invalid-location error of the
\* first such key, unless a reserved key comes before it in the dict, and then
\* it is the reserved-location error of the first reserved key.
C6_InvalidKeyFails ==
    (op = "Core" /\ InvalidAt # {}) =>
        /\ err # "none"
        /\ core = None
        /\ err = IF \E i \in ReservedAt : i < First(InvalidAt)
                 THEN ReservedLocationError(KeyAt(First(ReservedAt)))
                 ELSE InvalidLocationError(KeyAt(First(InvalidAt)))

\* Core(core_loading = {"A-01": .., "Z-99": ..}) raised the error of "A-01"
C6_Witness ==
    /\ op = "Core"
    /\ Len(args.core_loading) = 2
    /\ KeyAt(1) = "A-01"
    /\ KeyAt(2) = "Z-99"
    /\ err = "Core location 'A-01' is reserved for control rods or central thimble."
    /\ core = None

\* C7 as stated: Core(...) whose core_loading has a reserved key fails with the
\* reserved-location error, and a Core that exists has no reserved key.
C7_ReservedKeyRaisesReservedLocation ==
    /\ (op = "Core" /\ ReservedAt # {}) =>
          \E i \in ReservedAt : err = ReservedLocationError(KeyAt(i))
    /\ core # None => \A i \in 1 .. Len(core.core_loading) :
                          core.core_loading[i][1] \notin ReservedLocations

\* C7: Core(...) whose core_loading has a reserved key fails and leaves no
\* Core; the error is the reserved-location error of the first reserved key,
\* unless a key that is no location of RING_MAP comes before it in the dict,
\* and then it is the invalid-location error of that key; the two errors
\* differ, and a Core that exists has no reserved key in core_loading.
C7_ReservedKeyFails ==
    /\ (op = "Core" /\ ReservedAt # {}) =>
          /\ err # "none"
          /\ core = None
          /\ err = IF \E i \in InvalidAt : i < First(ReservedAt)
                   THEN InvalidLocationError(KeyAt(First(InvalidAt)))
                   ELSE ReservedLocationError(KeyAt(First(ReservedAt)))
          /\ \A k \in LoadKeys :
                ReservedLocationError(KeyAt(First(ReservedAt))) # InvalidLocationError(k)
    /\ core # None => \A i \in 1 .. Len(core.core_loading) :
                          core.core_loading[i][1] \notin ReservedLocations

\* Core(core_loading = {"Z-99": .., "D-06": ..}) raised the error of "Z-99"
C7_Witness ==
    /\ op = "Core"
    /\ Len(args.core_loading) = 2
    /\ KeyAt(1) = "Z-99"
    /\ KeyAt(2) = "D-06"
    /\ err = "Invalid core location 'Z-99' in core_loading."
    /\ core = None

\* every label of the table
AllLabels == Range(Flatten(RING_MAP))

\* the value the specification gives a location that is not reserved
ExpectedLoad(loading, k) == DictGet(loading, k, DictGet(default_loading, k, None))

\* C8: a constructed Core has an attribute core_map whose keys are the labels
\* of RING_MAP and whose value at a label that is not reserved is the caller's
\* value when core_loading has the label (None included), else the default
\* loading's, else None; with an empty core_loading "E-11" is empty and "G-32"
\* holds the source holder.
C8_CoreMapAttribute ==
    core # None =>
        /\ "core_map" \in DOMAIN core
        /\ DOMAIN core.core_map = AllLabels
        /\ \A k \in AllLabels \ ReservedLocations :
              core.core_map[k] = ExpectedLoad(core.core_loading, k)
        /\ core.core_loading = <<>> =>
              /\ core.core_map["E-11"] = None
              /\ core.core_map["G-32"] = New("SourceHolder")

\* C9: the core map of a constructed Core holds the Core's fixtures at the
\* reserved locations: central_thimble at "A-01", transient_rod at "C-01",
\* regulating_rod at "C-07", shim_1_rod at "D-06" and shim_2_rod at "D-14".
C9_ReservedHoldFixtures ==
    core # None =>
        /\ core_map["A-01"] = core.central_thimble
        /\ core_map["C-01"] = core.transient_rod
        /\ core_map["C-07"] = core.regulating_rod
        /\ core_map["D-06"] = core.shim_1_rod
        /\ core_map["D-14"] = core.shim_2_rod

\* the label <letter>-<index on two digits>
Digit(d) == <<"0", "1", "2", "3", "4", "5", "6", "7", "8", "9">>[d + 1]
Label(letter, i) == letter \o "-" \o Digit(i \div 10) \o Digit(i % 10)

\* C10: in every state RING_MAP is the same table of 7 rings, outermost
\* first (G, F, E, D, C, B, A) with 36, 30, 24, 18, 12, 6 and 1 locations, the
\* i-th location of a ring being <letter>-<i on two digits>, 127 labels in all,
\* each once.
C10_RingMapFixed ==
    /\ Len(RING_MAP) = 7
    /\ \A r \in 1 .. 7 :
          LET letter == <<"G", "F", "E", "D", "C", "B", "A">>[r]
              size   == <<36, 30, 24, 18, 12, 6, 1>>[r]
          IN  /\ Len(RING_MAP[r]) = size
              /\ \A i \in 1 .. size : RING_MAP[r][i] = Label(letter, i)
    /\ Len(Flatten(RING_MAP)) = 127
    /\ Cardinality(AllLabels) = 127

\* a Core was built from a caller's loading and the table is as it was
C10_Witness ==
    /\ op = "Core"
    /\ core # None
    /\ Len(core.core_loading) = 2
    /\ RING_MAP[1][36] = "G-36"
    /\ RING_MAP[7] = <<"A-01">>

\* the class of the last component constructor call, and the value each field
\* has after the defaults are applied (fields left out that have no default
\* have none)
ArgClass == Components[CHOOSE i \in 1 .. Len(Components) : Components[i].name = args.class]
HasValue(f) == args.given[f] # NoArg \/ f \in DOMAIN ArgClass.defaults
ValueOf(f) == IF args.given[f] # NoArg THEN args.given[f].v ELSE ArgClass.defaults[f]

\* the fields that are lengths, radii, thicknesses, heights or counts, as
\* opposed to positions along the core axis
LengthFields ==
    Range(ArgClass.fields) \ {"distance_from_core_centerline", "core_centerline_offset"}

\* C11: constructing a dimensioned component fails, and returns no object,
\* when any of its lengths, radii or thicknesses is <= 0 (zero included), and
\* succeeds with the declared defaults when no argument is passed to a class
\* all of whose fields have defaults.
C11_DimensionsMustBePositive ==
    op = "Component" =>
        /\ (\E f \in LengthFields : HasValue(f) /\ ValueOf(f) <= 0) =>
              (err # "none" /\ obj = None)
        /\ (/\ \A f \in Range(ArgClass.fields) : args.given[f] = NoArg
            /\ DOMAIN ArgClass.defaults = Range(ArgClass.fields)) =>
              (err = "none" /\ obj # None /\ obj.fields = ArgClass.defaults)

\* GridPlate(..) with a control rod penetration radius of 0 and the other
\* dimensions positive was refused
C11_Witness ==
    /\ op = "Component"
    /\ args.class = "GridPlate"
    /\ args.given["thickness"] = Given(Inches(1))
    /\ args.given["fuel_penetration_radius"] = Given(Inches(1))
    /\ args.given["control_rod_penetration_radius"] = Given(0)
    /\ args.given["distance_from_core_centerline"] = Given(Inches(1))
    /\ err = "Grid Plate control rod penetration radius must be positive."
    /\ obj = None

\* the inner/outer pairs: class, outer field, inner field
Pairs ==
    {<<"BeamPort", "outer_radius", "inner_radius">>,
     <<"CentralThimble", "outer_radius", "inner_radius">>,
     <<"FuelElement.FuelMeat", "outer_radius", "inner_radius">>,
     <<"Shroud", "large_hex_inradius", "small_hex_inradius">>}

\* C12: a component with an inner/outer pair is constructed only if the
\* outer value is strictly greater than the inner one; with equal values and
\* with the outer smaller than the inner the construction fails.
C12_OuterGreaterThanInner ==
    op = "Component" =>
        \A p \in Pairs :
            args.class = p[1] =>
                /\ err = "none" => obj.fields[p[2]] > obj.fields[p[3]]
                /\ (ValueOf(p[2]) <= ValueOf(p[3])) => (err # "none" /\ obj = None)

\* CentralThimble(inner_radius = 1 in, outer_radius = 1 in) was refused
C12_Witness ==
    /\ op = "Component"
    /\ args.class = "CentralThimble"
    /\ args.given["inner_radius"] = Given(Inches(1))
    /\ args.given["outer_radius"] = Given(Inches(1))
    /\ err = "Central Thimble outer radius must be larger than inner radius."
    /\ obj = None


\* the factory of the last factory call and the temperature and density it
\* received, defaults applied
ArgFactory == Factories[CHOOSE i \in 1 .. Len(Factories) : Factories[i].name = args.factory]
ArgTemperature == IF args.temperature = NoArg THEN DEFAULT_TEMPERATURE ELSE args.temperature.v
ArgDensity == IF args.density = NoArg THEN ArgFactory.density ELSE args.density.v

\* C13: each of the ten material factories fails and returns no material
\* when its temperature is < 0, and otherwise (0 included) returns a material
\* of its own name that carries exactly the temperature and the density passed.
C13_FactoryTemperature ==
    op = "factory" =>
        /\ ArgTemperature < 0 => (err # "none" /\ obj = None)
        /\ ArgTemperature >= 0 =>
              /\ err = "none"
              /\ obj # None
              /\ obj.name = args.factory
              /\ obj.temperature = ArgTemperature
              /\ obj.density = ArgDensity
              /\ obj.density_units = ArgFactory.density_units

\* cadmium(temperature = 0, density = 1.0) returned a material at 0 K
C13_Witness ==
    /\ op = "factory"
    /\ args.factory = "Cadmium"
    /\ args.temperature = Given(0)
    /\ args.density = Given(1000000)
    /\ err = "none"
    /\ obj.temperature = 0
    /\ obj.density = 1000000

\* the identities of the objects an object of insts holds, itself included
Held(inst) ==
    IF inst.kind = "Material" THEN <<Instance(inst.id)>>
    ELSE IF inst.kind = "Core"
    THEN <<Instance(inst.id),
           IF "id" \in DOMAIN inst.fields.central_thimble
           THEN Instance(inst.fields.central_thimble.id)
           ELSE ClassObject(inst.fields.central_thimble.class),
           Instance(inst.fields.transient_rod.id),
           Instance(inst.fields.regulating_rod.id),
           Instance(inst.fields.shim_1_rod.id),
           Instance(inst.fields.shim_2_rod.id)>>
         \o SelectSeq([i \in 1 .. Len(inst.fields.core_loading) |->
                          IF inst.fields.core_loading[i][2] = None THEN None
                          ELSE Instance(inst.fields.core_loading[i][2].id)],
                      LAMBDA x : x # None)
    ELSE <<Instance(inst.id), Instance(inst.material.id)>>

RECURSIVE AllHeld(_)
AllHeld(seq) == IF seq = <<>> THEN <<>> ELSE Held(Head(seq)) \o AllHeld(Tail(seq))

\* C14: nothing is shared between the objects built with default
\* arguments: every material, every assembly of a default core loading, and
\* every fixture of a Core (the central thimble and the four rods) is an object
\* of its own, held in one place only.
C14_NoInstanceShared ==
    LET held == AllHeld(insts)
    IN  \A a, b \in 1 .. Len(held) : held[a] = held[b] => a = b

\* the outer radius of the fuel follower of the rod in obj, derived from its
\* cladding
FollowerOuterRadius == obj.cladding.outer_radius - obj.cladding.thickness

\* C15: every FuelFollowerControlRod that was constructed is a radially
\* consistent shell: the follower's outer radius, cladding.outer_radius -
\* cladding.thickness, is positive and strictly greater than the follower's
\* inner radius; a cladding and a follower that do not fit are refused.
C15_RadiallyConsistentShell ==
    (op = "FuelFollowerControlRodFromParts" /\ err = "none") =>
        /\ FollowerOuterRadius > 0
        /\ FollowerOuterRadius > obj.fuel_follower.inner_radius

\* the four beam ports of the reactor in obj
BeamPorts == <<obj.beam_port_1_5, obj.beam_port_2, obj.beam_port_3, obj.beam_port_4>>

\* C16: the reactor built with no arguments has a core pitch of 1.714 in, its
\* upper and lower grid plates 12.75 in and 13.06 in from the core centerline,
\* and four beam ports, each with outer_radius > inner_radius > 0.
C16_DefaultReactor ==
    op = "Reactor" =>
        /\ err = "none"
        /\ obj.core.pitch = 1714 * CM_PER_INCH * 10
        /\ obj.upper_grid_plate.fields.distance_from_core_centerline = 1275 * CM_PER_INCH * 100
        /\ obj.lower_grid_plate.fields.distance_from_core_centerline = 1306 * CM_PER_INCH * 100
        /\ \A i \in 1 .. 4 :
              /\ BeamPorts[i].class = "BeamPort"
              /\ BeamPorts[i].fields.outer_radius > BeamPorts[i].fields.inner_radius
              /\ BeamPorts[i].fields.inner_radius > 0

\* Reactor() was built, with its four beam ports at four different places
C16_Witness ==
    /\ op = "Reactor"
    /\ args.class = "Reactor"
    /\ err = "none"
    /\ obj.kind = "Reactor"
    /\ \A i, j \in 1 .. 4 : BeamPorts[i].translation = BeamPorts[j].translation => i = j

\* the documented defaults of the grid plates (TRIGA docstring)
DocumentedGridPlate(which) ==
    IF which = "upper_grid_plate"
    THEN [thickness                      |-> 62 * CM_PER_INCH * 100,
          fuel_penetration_radius        |-> 7525 * CM_PER_INCH,
          control_rod_penetration_radius |-> 7525 * CM_PER_INCH]
    ELSE [thickness                      |-> 125 * CM_PER_INCH * 100,
          fuel_penetration_radius        |-> 625 * CM_PER_INCH * 10,
          control_rod_penetration_radius |-> 7525 * CM_PER_INCH]

AsDocumented(fields, which) ==
    \A f \in DOMAIN DocumentedGridPlate(which) : fields[f] = DocumentedGridPlate(which)[f]

\* C17: the default upper and lower grid plates have the documented
\* thickness, fuel penetration radius and control rod penetration radius
\* (1.505 * 0.5 in for both plates) wherever they are defined: in the TRIGA
\* dataclass, in the Reactor dataclass and in DefaultGeometries.
C17_GridPlateDefaultsAsDocumented ==
    /\ op = "Reactor" =>
          /\ AsDocumented(obj.upper_grid_plate.fields, "upper_grid_plate")
          /\ AsDocumented(obj.lower_grid_plate.fields, "lower_grid_plate")
    /\ op = "DefaultGeometries" => AsDocumented(obj.fields, obj.name)

\* the dimensions a caller passed to the composite being built that no part
\* accepts (a length, radius or thickness that is not positive)
RefusedDimensions == {f \in DOMAIN args : args[f] # NoArg /\ args[f].v <= 0}

\* C18: construction is fail-fast and never partial. Core(...): when any key of
\* core_loading, at any place in the dict, is invalid or reserved, the
\* construction fails and neither a Core nor a core map, not even a part of
\* one, exists afterwards; every key is validated before the map is built, so
\* a Core and its map exist only together and only for a loading all of whose
\* keys are valid. Likewise a composite (fuel element, graphite element,
\* fuel follower control rod built from parts, transient rod or fuel follower
\* control rod) whose validation, or the validation of one of its parts,
\* fails leaves no record behind, and every refused argument makes it fail.
C18_FailFastNeverPartial ==
    /\ op = "Core" =>
          /\ (InvalidAt \cup ReservedAt # {}) =>
                (err # "none" /\ core = None /\ core_map = None)
          /\ (err # "none") => (core = None /\ core_map = None)
          /\ (core = None) <=> (core_map = None)
          /\ (core_map # None) =>
                (InvalidAt \cup ReservedAt = {} /\ DOMAIN core_map = AllLabels)
    /\ op = "Rod" =>
          /\ (\/ args.fraction_withdrawn < 0
              \/ args.fraction_withdrawn > FracDen
              \/ args.maximum_withdrawal_distance <= 0) => err # "none"
          /\ (err # "none") <=> (obj = None)
          /\ (obj # None) =>
                /\ obj.kind = args.class
                /\ obj.fraction_withdrawn = args.fraction_withdrawn
                /\ obj.maximum_withdrawal_distance = args.maximum_withdrawal_distance
    /\ op \in {"GraphiteElement", "FuelFollowerControlRodFromParts"} =>
          /\ RefusedDimensions # {} => err # "none"
          /\ (err # "none") <=> (obj = None)
    /\ op = "FuelElement" =>
          /\ RefusedDimensions # {} => err # "none"
          /\ (err # "none") <=> (fe = None)

\* Core(core_loading = {"E-11": .., "D-06": ..}) failed on its second key and
\* left nothing, although its first key is a valid location
C18_Witness ==
    /\ op = "Core"
    /\ Len(args.core_loading) = 2
    /\ KeyAt(1) = "E-11"
    /\ KeyAt(2) = "D-06"
    /\ err = ReservedLocationError("D-06")
    /\ core = None
    /\ core_map = None

\* C19: GraphiteElement() mirrors the default FuelElement: its graphite meat
\* is as long as the default fuel element's interior (the sum of the five
\* stacked parts) and as wide as the default fuel meat, its cladding has the
\* default fuel cladding's thickness and outer radius, and its upper and lower
\* end fittings have the default fuel element's end-fitting lengths and point
\* 'up' and 'down'.
C19_GraphiteMirrorsFuelElement ==
    (op = "GraphiteElement" /\ args.outer_radius = NoArg /\ args.length = NoArg) =>
        /\ err = "none"
        /\ obj.graphite_meat.length =
              FuelElement_defaults.lower_graphite_reflector.thickness
              + FuelElement_defaults.moly_disc.thickness
              + FuelElement_defaults.fuel_meat.length
              + FuelElement_defaults.upper_graphite_reflector.thickness
              + FuelElement_defaults.upper_air_gap.thickness
        /\ obj.graphite_meat.outer_radius = FuelMeat_outer_radius
        /\ obj.cladding.thickness = Cladding_thickness
        /\ obj.cladding.outer_radius = Cladding_outer_radius
        /\ obj.upper_end_fitting =
              [length |-> FuelElement_defaults.upper_end_fitting.length, direction |-> "up"]
        /\ obj.lower_end_fitting =
              [length |-> FuelElement_defaults.lower_end_fitting.length, direction |-> "down"]

\* GraphiteElement() was built, and its meat is longer than the fuel meat
C19_Witness ==
    /\ op = "GraphiteElement"
    /\ args.outer_radius = NoArg
    /\ args.length = NoArg
    /\ err = "none"
    /\ obj.kind = "GraphiteElement"
    /\ obj.graphite_meat.length > FuelMeat_length

\* the seven variants of a core element
Variants == {"None", "FuelElement", "GraphiteElement", "CentralThimble", "SourceHolder",
             "TransientRod", "FuelFollowerControlRod"}

\* the variant of the element passed to the dispatcher, "other" for anything else
VariantOf(element) ==
    IF element = None THEN "None"
    ELSE IF "kind" \in DOMAIN element /\ element.kind \in Variants THEN element.kind
    ELSE "other"

\* what tells the result of each variant's builder from the others'
BuiltBy(variant, result) ==
    CASE variant = "None"            -> "fuel_meat" \in DOMAIN result /\ result.fill_gas = Coolant
      [] variant = "FuelElement"     -> "fuel_meat" \in DOMAIN result /\ result.fill_gas # Coolant
      [] variant = "GraphiteElement" -> "graphite_meat" \in DOMAIN result
      [] variant = "CentralThimble"  -> "fill_material" \in DOMAIN result
      [] variant = "SourceHolder"    -> "cavity" \in DOMAIN result
      [] variant = "TransientRod"    ->
            "absorber" \in DOMAIN result \/ "air_follower" \in DOMAIN result
            \/ ("section" \in DOMAIN result /\ result.section = "air_follower")
      [] variant = "FuelFollowerControlRod" -> "fuel_follower" \in DOMAIN result
                                               \/ "absorber" \in DOMAIN result

\* C20: the dispatch is total and exact: for None and for an instance of each
\* of the six element classes the dispatcher returns the result of that
\* variant's builder, never nothing, and for any other object it raises
\* ValueError.
C20_DispatchTotalAndExact ==
    op = "build_element" =>
        IF VariantOf(args.element) = "other"
        THEN err = UnsupportedElement(args.element).msg /\ obj = None
        ELSE err = "none" /\ obj # None /\ BuiltBy(VariantOf(args.element), obj)

\* C21: the Core built with no arguments holds, as central_thimble, a
\* CentralThimble instance that passed its validation: inner_radius > 0 and
\* outer_radius > inner_radius.
C21_DefaultCentralThimbleIsValidated ==
    (/\ op = "Core"
     /\ err = "none"
     /\ args.core_loading = default_loading
     /\ args.central_thimble = Core_defaults.central_thimble
     /\ args.transient_rod = Core_defaults.transient_rod) =>
        /\ IsInstance(core.central_thimble, "CentralThimble")
        /\ core.central_thimble.inner_radius > 0
        /\ core.central_thimble.outer_radius > core.central_thimble.inner_radius

\* C22: the assembly map is trimmed symmetrically: the top 3 and the bottom 3
\* rows are removed, and the leftmost 2 and the rightmost 2 columns of every
\* remaining row, the order of what remains unchanged.
C22_TrimIsSymmetric ==
    (op = "write_mpact_input_2" /\ err = "none") =>
        LET full == args.assembly_map
        IN  /\ Len(obj.core_map) = Len(full) - 6
            /\ \A r \in 1 .. Len(obj.core_map) :
                  /\ Len(obj.core_map[r]) = Len(full[r + 3]) - 4
                  /\ \A c \in 1 .. Len(obj.core_map[r]) :
                        obj.core_map[r][c] = full[r + 3][c + 2]


\* C25: write_mpact_input (problem 1 and problem 2) leaves the module-level
\* DEFAULT_MPACT_SETTINGS unchanged: after any number of calls its 'state',
\* 'xsec' and 'options' dictionaries hold exactly the keys and values they were
\* defined with (no 'tinlet', 'xslib' or 'rr_edits' entry is added).
C25_SettingsUnchanged == DEFAULT_MPACT_SETTINGS = DefaultMpactSettingsLiteral

\* C26: the result of write_mpact_input depends only on the arguments of that
\* call: a call made with the default dictionaries writes the inlet temperature
\* of its own coolant and the cross-section library of its own xslib, and a
\* problem 2 call writes the options as the module defines them, whatever calls
\* were made before it.
C26_ResultDependsOnlyOnArguments ==
    (op \in {"write_mpact_input_1", "write_mpact_input_2"} /\ err = "none") =>
        /\ ~args.own_states => obj.states[1].tinlet = args.coolant
        /\ ~args.own_xsec => obj.xsec.xslib = args.xslib
        /\ op = "write_mpact_input_2" =>
               obj.options = DefaultMpactSettingsLiteral.options


\* C24: the source holder spans from the top grid plate to just above the bottom
\* grid plate: its top is flush with the far surface of the upper grid plate
\* (upper_distance + thickness), its bottom lies distance_from_lower_grid_plate
\* above the lower grid plate's near surface (-lower_distance + distance), and
\* the placement does not depend on control_rod_bottom_position.
C24_SourceHolderSpansThePlates ==
    (op = "place_element" /\ args.kind = "SourceHolder") =>
        /\ obj.bottom + obj.length = args.upper_distance + args.upper_thickness
        /\ obj.bottom = -args.lower_distance + args.distance_from_lower_grid_plate

\* the default source holder between the default plates, the rods elsewhere
C24_Witness ==
    /\ op = "place_element"
    /\ args.kind = "SourceHolder"
    /\ args.upper_distance = Reactor_upper_grid_plate.distance_from_core_centerline
    /\ args.lower_distance = Reactor_lower_grid_plate.distance_from_core_centerline
    /\ args.upper_thickness = Reactor_upper_grid_plate.thickness
    /\ args.distance_from_lower_grid_plate = Cm(11934)
    /\ args.control_rod_bottom_position = -In(150000)
    /\ obj.length = build_source_holder_element(Elements[5]).val.length
    /\ obj.bottom = Cm(11934) - In(130600)


\* the inner radius of an assembly's cladding
CladdingInnerRadius(e) == e.cladding.outer_radius - e.cladding.thickness

\* the parts the cladding encloses lie within it and each filler rod within
\* the annulus it fills
RadiallyNested(e) ==
    CASE e.kind = "FuelElement" ->
            /\ e.fuel_meat.outer_radius <= CladdingInnerRadius(e)
            /\ e.upper_graphite_reflector.radius <= CladdingInnerRadius(e)
            /\ e.lower_graphite_reflector.radius <= CladdingInnerRadius(e)
            /\ e.moly_disc.radius <= CladdingInnerRadius(e)
            /\ e.zr_fill_rod.radius <= e.fuel_meat.inner_radius
      [] e.kind = "GraphiteElement" ->
            e.graphite_meat.outer_radius <= CladdingInnerRadius(e)
      [] e.kind = "TransientRod" ->
            e.absorber.radius <= CladdingInnerRadius(e)
      [] e.kind = "FuelFollowerControlRod" ->
            /\ e.absorber.radius <= CladdingInnerRadius(e)
            /\ e.zr_fill_rod.radius <= e.fuel_follower.inner_radius
      [] OTHER -> TRUE

\* C27: every default composite assembly is radially nested: each part the
\* cladding encloses has a radius no larger than the cladding's inner radius,
\* and each filler rod a radius no larger than the inner radius of the annulus
\* it fills (default FuelElement, GraphiteElement, TransientRod and
\* FuelFollowerControlRod).
C27_DefaultsRadiallyNested ==
    (op = "build_element" /\ args.element # None /\ "kind" \in DOMAIN args.element) =>
        RadiallyNested(args.element)


\* a table of direction angles that is a rotation about the z axis: the z row
\* and column are (90, 90, 0) and the in-plane angles a, b of each other row
\* give a unit vector, cos(a)^2 + cos(b)^2 = 1, which is a - b or a + b
\* congruent to 90 modulo 180
RotationAboutZ(rotation) ==
    /\ rotation[3] = <<90, 90, 0>>
    /\ \A i \in 1 .. 2 :
          /\ rotation[i][3] = 90
          /\ \/ (rotation[i][1] - rotation[i][2]) % 180 = 90
             \/ (rotation[i][1] + rotation[i][2]) % 180 = 90

\* C28: every default beam-port rotation is a valid rotation about the z axis:
\* the third row and third column are (90, 90, 0), and in each of the first
\* two rows the in-plane angles a and b have a - b or a + b congruent to 90
\* modulo 180; for the identity default and for beam ports 1/5, 2, 3 and 4.
C28_BeamPortRotationsValid ==
    (op = "Reactor" /\ err = "none") =>
        /\ RotationAboutZ(BeamPort_rotation)
        /\ \A i \in 1 .. 4 : RotationAboutZ(BeamPorts[i].rotation)


\* C29: the five reserved labels are all members of RING_MAP and the key set of
\* Core.default_loading() is exactly RING_MAP minus the five reserved labels, so
\* every lattice position is accounted for by exactly one of the default
\* loading and the fixture fields, and constructing Core with the default
\* loading never fails validation.
C29_DefaultLoadingCoversTheRest ==
    LET locations == Range(Flatten(RING_MAP))
    IN  /\ ReservedLocations \subseteq locations
        /\ Keys(default_loading) = locations \ ReservedLocations
        /\ DistinctKeys(default_loading)
        /\ (op = "Core" /\ args.core_loading = default_loading) =>
               /\ err = "none"
               /\ DOMAIN core_map = locations

\* a Core built with the default loading and the callers' fixtures
C29_Witness ==
    /\ op = "Core"
    /\ err = "none"
    /\ args.core_loading = default_loading
    /\ args.central_thimble = Core_given.central_thimble
    /\ DOMAIN core_map = Range(Flatten(RingMapLiteral))
    /\ core_map["B-01"] = New("FuelElement")


\* C30: the default core loading is one fixed table: the loading built by
\* DefaultGeometries.core() and the table returned by Core.default_loading()
\* have the same key set and put the same kind of content (fuel element,
\* graphite element, source holder or empty) at every lattice position.
C30_OneDefaultLoading ==
    op = "DefaultGeometries.core" =>
        /\ Keys(obj.loading) = Keys(default_loading)
        /\ \A k \in Keys(default_loading) :
              DictGet(obj.loading, k, None) = DictGet(default_loading, k, None)

====
